---- MODULE Spec2Model ----
(***************************************************************************)
(* A model of the sous reconciliation core: the Rectifier (Rectify and its *)
(* three workers), the request-id computation, the identity model with    *)
(* its canonical strings and parsers, and the NameCache with its SQLite     *)
(* store (as a sequence of calls, and as two goroutines racing statement by *)
(* statement).                                                              *)
(* Strings the code inspects character by character are sequences of       *)
(* one-character strings; strings the code only passes along are TLA+      *)
(* strings.                                                                *)
(***************************************************************************)
EXTENDS Integers, Sequences, FiniteSets, TLC

VARIABLES
    pc,            \* worker -> the statement the worker goroutine is at
    cur,           \* worker -> the loop variable (d or pair) of the iteration
    name,          \* worker -> the local variable name (the resolved image)
    err,           \* worker -> the error value the worker is sending on errs
    toSend,        \* worker -> how many items the producer still has for it
    inClosed,      \* worker -> whether the producer closed its input channel
    wg,            \* the sync.WaitGroup counter
    closerPc,      \* the position of the goroutine that waits and closes errs
    closeCount,    \* how many times close(errs) was executed
    panicked,      \* a send on the closed errs channel has panicked
    received,      \* the errors the consumer has received from errs, in order
    consumerDone,  \* the consumer has observed the end of the stream
    uuids,         \* how many fresh ids uuid.NewV4 has handed out
    delivered,     \* history: worker -> the items the producer delivered to it
    calls,         \* history: worker -> the scheduler-client calls it made
    emitted,       \* history: worker -> the errors it has put up for sending,
                   \* each with the index of the item it was working on
    call           \* the last call of a pure function: its input and output

VARIABLES
    db,            \* the NameCache store: the rows of its five tables
    registry,      \* the image registry: image name -> its metadata
    opLog,         \* history: the NameCache calls that have returned
    thr            \* goroutine -> its position and locals in a racing dbInsert

cacheVars == <<db, registry, opLog, thr>>

vars == <<pc, cur, name, err, toSend, inClosed, wg, closerPc, closeCount,
          panicked, received, consumerDone, uuids, delivered, calls, emitted, call,
          db, registry, opLog, thr>>

rectVars == <<pc, cur, name, err, toSend, inClosed, wg, closerPc, closeCount,
              panicked, received, consumerDone, uuids, delivered, calls, emitted>>


----------------------------------------------------------------------------
(* Bounds *)

\* the number of differences (of all three kinds together) in the producer's
\* batch
MaxItems == 2

\* the length of the RequestID, RepoURL and RepoOffset strings tried on
\* computeRequestID, and of the RepoURL strings tried on the parsers
MaxStrLen == 3

\* the length of the RepoOffset strings tried on the parsers
MaxOffsetLen == 1

----------------------------------------------------------------------------
(* Identity model *)

\* the value of a variable that holds nothing
NoVal == [none |-> TRUE]

Chars == {"a", "-", "/", ":"}

RECURSIVE StringsUpTo(_)
StringsUpTo(n) ==
    IF n = 0 THEN {<<>>}
    ELSE {<<>>} \cup {<<c>> \o s : c \in Chars, s \in StringsUpTo(n - 1)}

\* semv.Version{Major, Minor, Patch, Pre, Meta}
Version(major, minor, patch, pre, meta) ==
    [Major |-> major, Minor |-> minor, Patch |-> patch, Pre |-> pre, Meta |-> meta]

\* semv.Version.Equals: numeric components and pre-release, not the metadata
VersionEquals(v, o) ==
    /\ v.Major = o.Major
    /\ v.Minor = o.Minor
    /\ v.Patch = o.Patch
    /\ v.Pre = o.Pre

\* SourceVersion{RepoURL, Version, RepoOffset}
SourceVersion(repo, version, offset) ==
    [RepoURL |-> repo, Version |-> version, RepoOffset |-> offset]

\* SourceLocation{RepoURL, RepoOffset}
SourceLocation(repo, offset) == [RepoURL |-> repo, RepoOffset |-> offset]

\* func (sl SourceLocation) String() string
SourceLocationString(sl) ==
    IF sl.RepoOffset = <<>>
    THEN sl.RepoURL
    ELSE sl.RepoURL \o <<":">> \o sl.RepoOffset

\* func (sv *SourceVersion) CanonicalName() SourceLocation
CanonicalName(sv) == SourceLocation(sv.RepoURL, sv.RepoOffset)

\* func (sv *SourceVersion) Equal(o SourceVersion) bool
SourceVersionEqual(sv, o) ==
    /\ sv.RepoURL = o.RepoURL
    /\ sv.RepoOffset = o.RepoOffset
    /\ VersionEquals(sv.Version, o.Version)

\* Resources.Equal: the same keys, each with the same value
ResourcesEqual(r, o) ==
    /\ Cardinality(DOMAIN r) = Cardinality(DOMAIN o)
    /\ \A k \in DOMAIN r : k \in DOMAIN o /\ o[k] = r[k]

\* Env.Equal: the same keys, each with the same value
EnvEqual(e, o) ==
    /\ Cardinality(DOMAIN e) = Cardinality(DOMAIN o)
    /\ \A k \in DOMAIN e : k \in DOMAIN o /\ o[k] = e[k]

----------------------------------------------------------------------------
(* Canonical strings: formatting and parsing.  A string is a sequence of     *)
(* one-character strings; every character used is ASCII, on which            *)
(* norm.NFC.String is the identity.  Version components are single digits.   *)

Letters ==
    {"a", "b", "c", "d", "e", "f", "g", "h", "i", "j", "k", "l", "m",
     "n", "o", "p", "q", "r", "s", "t", "u", "v", "w", "x", "y", "z",
     "A", "B", "C", "D", "E", "F", "G", "H", "I", "J", "K", "L", "M",
     "N", "O", "P", "Q", "R", "S", "T", "U", "V", "W", "X", "Y", "Z"}

Digits == {"0", "1", "2", "3", "4", "5", "6", "7", "8", "9"}

\* the number a digit character stands for
DigitValue(c) == CHOOSE n \in 0..9 : ToString(n) = c

\* strings.HasPrefix
HasPrefix(s, p) == Len(s) >= Len(p) /\ SubSeq(s, 1, Len(p)) = p

\* s[n:]
Drop(s, n) == SubSeq(s, n + 1, Len(s))

\* strings.Index for a one-character separator: the first position of c in
\* s, 0 when there is none
IndexOf(s, c) ==
    IF \E i \in 1..Len(s) : s[i] = c
    THEN CHOOSE i \in 1..Len(s) : s[i] = c /\ \A j \in 1..(i - 1) : s[j] # c
    ELSE 0

\* strings.Split(s, delim) for a one-character delim
RECURSIVE Split(_, _)
Split(s, delim) ==
    LET i == IndexOf(s, delim)
    IN  IF i = 0
        THEN <<s>>
        ELSE <<SubSeq(s, 1, i - 1)>> \o Split(Drop(s, i), delim)

\* semv.Version.String: M.m.p, then -pre and +meta when they are set
VersionString(v) ==
    <<ToString(v.Major), ".", ToString(v.Minor), ".", ToString(v.Patch)>>
    \o (IF v.Pre = <<>> THEN <<>> ELSE <<"-">> \o v.Pre)
    \o (IF v.Meta = <<>> THEN <<>> ELSE <<"+">> \o v.Meta)

\* semv.Version.Format(`M.m.p-?`): M.m.p, then -pre when it is set
VersionFormatMmp(v) ==
    <<ToString(v.Major), ".", ToString(v.Minor), ".", ToString(v.Patch)>>
    \o (IF v.Pre = <<>> THEN <<>> ELSE <<"-">> \o v.Pre)

\* the zero value of semv.Version
ZeroVersion == Version(0, 0, 0, <<>>, <<>>)

\* semv.Parse: a string d.d.d[-pre][+meta] parses to its version; any other
\* string is an error
ParseVersion(s) ==
    LET plus == IndexOf(s, "+")
        core == IF plus = 0 THEN s ELSE SubSeq(s, 1, plus - 1)
        meta == IF plus = 0 THEN <<>> ELSE Drop(s, plus)
        dash == IndexOf(core, "-")
        nums == IF dash = 0 THEN core ELSE SubSeq(core, 1, dash - 1)
        pre  == IF dash = 0 THEN <<>> ELSE Drop(core, dash)
        ok   == /\ Len(nums) = 5
                /\ nums[1] \in Digits /\ nums[2] = "."
                /\ nums[3] \in Digits /\ nums[4] = "."
                /\ nums[5] \in Digits
                /\ (plus # 0 => meta # <<>>)
                /\ (dash # 0 => pre # <<>>)
    IN  IF ok
        THEN [err |-> FALSE,
              v |-> Version(DigitValue(nums[1]), DigitValue(nums[3]),
                            DigitValue(nums[5]), pre, meta)]
        ELSE [err |-> TRUE, v |-> ZeroVersion]

\* func (sv SourceVersion) String() string
SourceVersionString(sv) ==
    IF sv.RepoOffset = <<>>
    THEN sv.RepoURL \o <<" ">> \o VersionString(sv.Version)
    ELSE sv.RepoURL \o <<":">> \o sv.RepoOffset \o <<" ">> \o VersionString(sv.Version)

\* const DefaultDelim = ","
DefaultDelim == ","

\* what a parse returns: it panics (an index out of range), or it returns a
\* value and an error; err is "nil" when there is no error, and parsing is
\* the input string a typed parse error carries
Panics == [panic |-> TRUE, err |-> "panic", val |-> NoVal, parsing |-> <<>>]

Returns(val, e) == [panic |-> FALSE, err |-> e, val |-> val, parsing |-> <<>>]

\* the return of the zero value val with the error &e{source}
Fails(val, e, source) ==
    [panic |-> FALSE, err |-> e, val |-> val, parsing |-> source]

\* func parseChunks(sourceStr string) []string; source[0] of an empty string
\* is out of range
parseChunks(sourceStr) ==
    IF sourceStr = <<>>
    THEN [panic |-> TRUE, chunks |-> <<>>]
    ELSE IF Head(sourceStr) \notin Letters
         THEN [panic |-> FALSE, chunks |-> Split(Tail(sourceStr), Head(sourceStr))]
         ELSE [panic |-> FALSE, chunks |-> Split(sourceStr, DefaultDelim)]

\* the zero values of SourceVersion and SourceLocation
ZeroSourceVersion == SourceVersion(<<>>, ZeroVersion, <<>>)

ZeroSourceLocation == SourceLocation(<<>>, <<>>)

\* func sourceVersionFromChunks(source string, chunks []string); chunks[1] of
\* a single chunk is out of range
sourceVersionFromChunks(source, chunks) ==
    IF Len(chunks[1]) = 0
    THEN Fails(ZeroSourceVersion, "MissingRepo", source)
    ELSE IF Len(chunks) < 2
         THEN Panics
         ELSE LET parsed == ParseVersion(chunks[2])
              IN  IF parsed.err
                  THEN Returns(SourceVersion(chunks[1], parsed.v, <<>>), "semv")
                  ELSE IF Len(chunks) < 3
                       THEN Returns(SourceVersion(chunks[1], parsed.v, <<>>), "nil")
                       ELSE Returns(SourceVersion(chunks[1], parsed.v, chunks[3]), "nil")

\* func canonicalNameFromChunks(source string, chunks []string)
canonicalNameFromChunks(source, chunks) ==
    IF Len(chunks) > 2
    THEN Fails(ZeroSourceLocation, "IncludesVersion", source)
    ELSE IF Len(chunks[1]) = 0
         THEN Fails(ZeroSourceLocation, "MissingRepo", source)
         ELSE IF Len(chunks) < 2
              THEN Returns(SourceLocation(chunks[1], <<>>), "nil")
              ELSE Returns(SourceLocation(chunks[1], chunks[2]), "nil")

\* func ParseSourceVersion(source string) (SourceVersion, error)
ParseSourceVersion(source) ==
    LET parsed == parseChunks(source)
    IN  IF parsed.panic THEN Panics
        ELSE sourceVersionFromChunks(source, parsed.chunks)

\* func ParseCanonicalName(source string) (SourceLocation, error)
ParseCanonicalName(source) ==
    LET parsed == parseChunks(source)
    IN  IF parsed.panic THEN Panics
        ELSE canonicalNameFromChunks(source, parsed.chunks)

\* the length of the longest prefix of s made of letters
RECURSIVE AlphaPrefixLen(_)
AlphaPrefixLen(s) ==
    IF s # <<>> /\ Head(s) \in Letters THEN 1 + AlphaPrefixLen(Tail(s)) ELSE 0

Github == <<"g", "i", "t", "h", "u", "b">>

Com == <<"c", "o", "m">>

SlashOpentable == <<"/", "o", "p", "e", "n", "t", "a", "b", "l", "e">>

\* var stripRE = regexp.MustCompile("^([[:alpha:]]+://)?(github.com(/opentable)?)?"):
\* the length of its match at the start of s.  The dot matches any character.
stripREMatchLen(s) ==
    LET n     == AlphaPrefixLen(s)
        proto == IF n >= 1 /\ HasPrefix(Drop(s, n), <<":", "/", "/">>)
                 THEN n + 3 ELSE 0
        rest  == Drop(s, proto)
        host  == IF /\ HasPrefix(rest, Github)
                    /\ Len(rest) >= 10
                    /\ HasPrefix(Drop(rest, 7), Com)
                 THEN 10 ELSE 0
        org   == IF host # 0 /\ HasPrefix(Drop(rest, host), SlashOpentable)
                 THEN 10 ELSE 0
    IN  proto + host + org

\* func (sl *SourceVersion) DockerImageName() string
DockerImageName(sl) ==
    LET stripped == Drop(sl.RepoURL, stripREMatchLen(sl.RepoURL))
        joined == IF sl.RepoOffset # <<>>
                  THEN stripped \o <<"/">> \o sl.RepoOffset
                  ELSE stripped
    IN  joined \o <<":">> \o VersionFormatMmp(sl.Version)

----------------------------------------------------------------------------
(* Request ids *)

\* var notInIDRE = regexp.MustCompile(`[-/:]`)
notInIDRE == {"-", "/", ":"}

\* func idify(in string) string: notInIDRE.ReplaceAllString(in, "")
RECURSIVE idify(_)
idify(in) ==
    IF in = <<>> THEN <<>>
    ELSE IF Head(in) \in notInIDRE
         THEN idify(Tail(in))
         ELSE <<Head(in)>> \o idify(Tail(in))

\* computeRequestID without idify
computeRequestIDRaw(d) ==
    IF Len(d.RequestID) > 0
    THEN d.RequestID
    ELSE SourceLocationString(CanonicalName(d.SourceVersion))

\* func computeRequestID(d *Deployment) string
computeRequestID(d) ==
    IF Len(d.RequestID) > 0
    THEN d.RequestID
    ELSE idify(SourceLocationString(CanonicalName(d.SourceVersion)))

\* func newDepID() string: a fresh uuid, idified; the n-th uuid is the
\* string u-n
newDepID(n) == idify(<<"u", "-", ToString(n)>>)

\* func (r rectifier) changesReq(pair *DeploymentPair) bool
changesReq(pair) == pair.prior.NumInstances # pair.post.NumInstances

\* changesDep with || for &&: true only when all three differ
changesDepAllDiffer(pair) ==
    ~(\/ SourceVersionEqual(pair.prior.SourceVersion, pair.post.SourceVersion)
      \/ ResourcesEqual(pair.prior.Resources, pair.post.Resources)
      \/ EnvEqual(pair.prior.Env, pair.post.Env))

\* func changesDep(pair *DeploymentPair) bool
changesDep(pair) ==
    ~(/\ SourceVersionEqual(pair.prior.SourceVersion, pair.post.SourceVersion)
      /\ ResourcesEqual(pair.prior.Resources, pair.post.Resources)
      /\ EnvEqual(pair.prior.Env, pair.post.Env))

----------------------------------------------------------------------------
(* The deployments and pairs the producer draws from *)

V1  == Version(1, 0, 0, <<>>, <<>>)
V1m == Version(1, 0, 0, <<>>, <<"r">>)
V2  == Version(2, 0, 0, <<>>, <<>>)

Res1 == ("cpus" :> "1")
Res2 == ("cpus" :> "2")
Res3 == ("cpus" :> "1") @@ ("memory" :> "1")
Env1 == ("K" :> "v")
Env2 == ("K" :> "w")

\* Deployment{Cluster, RequestID, NumInstances, Resources, Env, Volumes,
\* SourceVersion}; Volumes stands for DeployConfig.Volumes
DepA ==
    [Cluster |-> "c1", RequestID |-> <<>>, NumInstances |-> 1,
     Resources |-> Res1, Env |-> Env1, Volumes |-> "vols1",
     SourceVersion |-> SourceVersion(<<"g", "/", "a", "-", "b">>, V1, <<>>)]

DepB ==
    [Cluster |-> "c2", RequestID |-> <<"r", "-", "1">>, NumInstances |-> 2,
     Resources |-> Res2, Env |-> Env2, Volumes |-> "vols2",
     SourceVersion |-> SourceVersion(<<"g", "/", "c">>, V2, <<"o", "/", "p">>)]

DeploymentPool == {DepA, DepB}

Pair(prior, post) == [prior |-> prior, post |-> post]

PairPool ==
    { Pair(DepA, [DepA EXCEPT !.Volumes = "vols2"]),
      Pair(DepA, [DepA EXCEPT !.SourceVersion.Version = V1m]),
      Pair(DepA, [DepA EXCEPT !.NumInstances = 2]),
      Pair(DepA, [DepA EXCEPT !.SourceVersion.Version = V2]),
      Pair(DepA, [DepA EXCEPT !.Resources = Res3]),
      Pair(DepA, [DepA EXCEPT !.Env = Env2]),
      Pair(DepA, [DepB EXCEPT !.SourceVersion.RepoURL = DepA.SourceVersion.RepoURL]) }

----------------------------------------------------------------------------
(* The NameCache store.  The five tables of getDatabase with their unique   *)
(* constraints (on conflict replace), autoincrement keys and foreign keys   *)
(* (on delete cascade, enforced: pragma foreign_keys = ON).  A statement is *)
(* an operator from the store to the store it leaves, the key it inserted   *)
(* and whether it succeeded.                                                *)

\* an image name: a repository name and a tag
ImageRef(repo, tag) == [repo |-> repo, tag |-> tag]

\* the empty string, as an image name
NoName == ImageRef("", "")

\* the store getDatabase creates
EmptyDB ==
    [docker_repo_name       |-> {},
     docker_search_location |-> {},
     repo_through_location  |-> {},
     docker_search_metadata |-> {},
     docker_search_name     |-> {},
     sequence |-> [docker_repo_name |-> 0, docker_search_location |-> 0,
                   docker_search_metadata |-> 0, docker_search_name |-> 0]]

\* what a statement returns
Done(d, id) == [db |-> d, id |-> id, ok |-> TRUE]

\* a statement that fails (FOREIGN KEY constraint failed) leaves the store as
\* it was
Failed(d) == [db |-> d, id |-> 0, ok |-> FALSE]

\* docker_search_name.metadata_id references docker_search_metadata on delete
\* cascade
DeleteMetadataRows(d, mids) ==
    [d EXCEPT
        !.docker_search_metadata = {m \in @ : m.metadata_id \notin mids},
        !.docker_search_name = {n \in @ : n.metadata_id \notin mids}]

\* docker_search_metadata.location_id and repo_through_location.location_id
\* reference docker_search_location on delete cascade
DeleteLocationRows(d, lids) ==
    LET mids == {m.metadata_id :
                    m \in {r \in d.docker_search_metadata : r.location_id \in lids}}
    IN  [DeleteMetadataRows(d, mids) EXCEPT
            !.docker_search_location = {l \in @ : l.location_id \notin lids},
            !.repo_through_location = {t \in @ : t.location_id \notin lids}]

\* repo_through_location.repo_name_id references docker_repo_name on delete
\* cascade
DeleteRepoNameRows(d, nids) ==
    [d EXCEPT
        !.docker_repo_name = {r \in @ : r.repo_name_id \notin nids},
        !.repo_through_location = {t \in @ : t.repo_name_id \notin nids}]

\* insert into docker_repo_name (name) values ($1); unique (name) on
\* conflict replace
InsertRepoName(d, repoName) ==
    LET old == {r.repo_name_id :
                   r \in {x \in d.docker_repo_name : x.name = repoName}}
        id  == d.sequence.docker_repo_name + 1
        d1  == DeleteRepoNameRows(d, old)
    IN  Done([d1 EXCEPT
                !.docker_repo_name = @ \cup {[repo_name_id |-> id, name |-> repoName]},
                !.sequence.docker_repo_name = id], id)

\* the insert into docker_search_location without its unique constraint
InsertLocationDuplicating(d, repo, offset) ==
    LET id == d.sequence.docker_search_location + 1
    IN  Done([d EXCEPT
                !.docker_search_location =
                    @ \cup {[location_id |-> id, repo |-> repo, offset |-> offset]},
                !.sequence.docker_search_location = id], id)

\* insert into docker_search_location (repo, offset) values ($1, $2); unique
\* (repo, offset) on conflict replace
InsertLocation(d, repo, offset) ==
    LET old == {l.location_id :
                   l \in {x \in d.docker_search_location :
                             x.repo = repo /\ x.offset = offset}}
        id  == d.sequence.docker_search_location + 1
        d1  == DeleteLocationRows(d, old)
    IN  Done([d1 EXCEPT
                !.docker_search_location =
                    @ \cup {[location_id |-> id, repo |-> repo, offset |-> offset]},
                !.sequence.docker_search_location = id], id)

\* insert into repo_through_location (repo_name_id, location_id) values
\* ($1, $2); primary key (repo_name_id, location_id) on conflict replace;
\* both columns reference a row that must exist
InsertThrough(d, nid, lid) ==
    IF /\ \E r \in d.docker_repo_name : r.repo_name_id = nid
       /\ \E l \in d.docker_search_location : l.location_id = lid
    THEN Done([d EXCEPT !.repo_through_location =
                            @ \cup {[repo_name_id |-> nid, location_id |-> lid]}], 0)
    ELSE Failed(d)

\* insert into docker_search_metadata (location_id, etag, canonicalName,
\* version) values ($1, $2, $3, $4); unique (location_id, version) on
\* conflict replace; location_id references a row that must exist
InsertMetadata(d, lid, etag, canonicalName, version) ==
    LET old == {m.metadata_id :
                   m \in {x \in d.docker_search_metadata :
                             x.location_id = lid /\ x.version = version}}
        id  == d.sequence.docker_search_metadata + 1
        d1  == DeleteMetadataRows(d, old)
    IN  IF \E l \in d.docker_search_location : l.location_id = lid
        THEN Done([d1 EXCEPT
                      !.docker_search_metadata =
                          @ \cup {[metadata_id |-> id, location_id |-> lid,
                                   etag |-> etag, canonicalName |-> canonicalName,
                                   version |-> version]},
                      !.sequence.docker_search_metadata = id], id)
        ELSE Failed(d)

\* the insert into docker_search_name without its unique constraint
InsertNameDuplicating(d, mid, in) ==
    LET id == d.sequence.docker_search_name + 1
    IN  IF \E m \in d.docker_search_metadata : m.metadata_id = mid
        THEN Done([d EXCEPT
                      !.docker_search_name =
                          @ \cup {[name_id |-> id, metadata_id |-> mid, name |-> in]},
                      !.sequence.docker_search_name = id], id)
        ELSE Failed(d)

\* insert into docker_search_name (metadata_id, name) values ($1, $2); name
\* unique on conflict replace; metadata_id references a row that must exist
InsertName(d, mid, in) ==
    LET id == d.sequence.docker_search_name + 1
    IN  IF \E m \in d.docker_search_metadata : m.metadata_id = mid
        THEN Done([d EXCEPT
                      !.docker_search_name =
                          {n \in @ : n.name # in}
                          \cup {[name_id |-> id, metadata_id |-> mid, name |-> in]},
                      !.sequence.docker_search_name = id], id)
        ELSE Failed(d)

----------------------------------------------------------------------------
(* The NameCache operations, each an operator from the store (and the       *)
(* registry) to what the call returns and the store it leaves               *)

\* the error values; an error carries a source version or an image name, or
\* neither
ErrOf(type) == [type |-> type, sv |-> ZeroSourceVersion, in |-> NoName]

NilErr == ErrOf("nil")

\* NotModifiedErr{}
NotModifiedErr == ErrOf("NotModified")

\* NoImageNameFound{sv}
NoImageNameFound(sv) == [type |-> "NoImageNameFound", sv |-> sv, in |-> NoName]

\* NoSourceVersionFound{imageName(in)}
NoSourceVersionFound(in) ==
    [type |-> "NoSourceVersionFound", sv |-> ZeroSourceVersion, in |-> in]

\* the repository names reference.ParseNamed rejects: the empty name and a
\* name with an upper-case letter
InvalidRepoNames == {"", "Bad"}

\* reference.ParseNamed(in) returns no error
ParseNamedOK(in) == in.repo \notin InvalidRepoNames

\* what an operation returns: the store it leaves, its error, its source
\* version or image name, the registry fetches it made (name, etag sent and
\* outcome), and how many times it called dbInsert and dbQueryOnSV
Result(d, e, sv, in, fetches, inserts, lookups) ==
    [db |-> d, err |-> e, sv |-> sv, in |-> in,
     fetches |-> fetches, inserts |-> inserts, lookups |-> lookups]

\* func (nc *NameCache) dbInsert(sv SourceVersion, in, etag string) error
dbInsert(d, sv, in, etag) ==
    IF ~ParseNamedOK(in)
    THEN [db |-> d, err |-> ErrOf("ParseNamed")]
    ELSE LET s1 == InsertRepoName(d, in.repo)
             s2 == InsertLocation(s1.db, sv.RepoURL, sv.RepoOffset)
             s3 == InsertThrough(s2.db, s1.id, s2.id)
             s4 == InsertMetadata(s3.db, s2.id, etag, in, VersionFormatMmp(sv.Version))
             s5 == InsertName(s4.db, s4.id, in)
         IN  IF ~s3.ok THEN [db |-> s3.db, err |-> ErrOf("FOREIGN KEY")]
             ELSE IF ~s4.ok THEN [db |-> s4.db, err |-> ErrOf("FOREIGN KEY")]
             ELSE IF ~s5.ok THEN [db |-> s5.db, err |-> ErrOf("FOREIGN KEY")]
             ELSE [db |-> s5.db, err |-> NilErr]

\* the loop of dbAddNames: add.Exec(id, n) for each n of ins, until one fails
RECURSIVE AddNamesLoop(_, _, _)
AddNamesLoop(d, id, ins) ==
    IF ins = <<>>
    THEN [db |-> d, err |-> NilErr]
    ELSE LET s == InsertName(d, id, Head(ins))
         IN  IF ~s.ok
             THEN [db |-> s.db, err |-> ErrOf("FOREIGN KEY")]
             ELSE AddNamesLoop(s.db, id, Tail(ins))

\* the smallest element of a non-empty set of numbers
Min(S) == CHOOSE x \in S : \A y \in S : x <= y

\* dbAddNames leaving its loop after the first name
dbAddNamesFirstOnly(d, cn, ins) ==
    LET rows == {m.metadata_id :
                    m \in {x \in d.docker_search_metadata : x.canonicalName = cn}}
    IN  IF rows = {}
        THEN [db |-> d, err |-> ErrOf("sql.ErrNoRows")]
        ELSE AddNamesLoop(d, Min(rows), SubSeq(ins, 1, 1))

\* func (nc *NameCache) dbAddNames(cn string, ins []string) error; QueryRow
\* takes the first row of the select, which SQLite produces in the order of
\* metadata_id
dbAddNames(d, cn, ins) ==
    LET rows == {m.metadata_id :
                    m \in {x \in d.docker_search_metadata : x.canonicalName = cn}}
    IN  IF rows = {}
        THEN [db |-> d, err |-> ErrOf("sql.ErrNoRows")]
        ELSE AddNamesLoop(d, Min(rows), ins)

\* docker_search_name natural join docker_search_metadata natural join
\* docker_search_location
NameJoin(d) ==
    {[n |-> n, m |-> m, l |-> l] :
        n \in d.docker_search_name,
        m \in d.docker_search_metadata,
        l \in d.docker_search_location}

NameMetadataLocation(d) ==
    {j \in NameJoin(d) :
        /\ j.n.metadata_id = j.m.metadata_id
        /\ j.m.location_id = j.l.location_id}

\* func (nc *NameCache) dbQueryOnName(in string): name is unique, so the
\* select has at most one row
dbQueryOnName(d, in) ==
    LET rows == {j \in NameMetadataLocation(d) : j.n.name = in}
    IN  IF rows = {}
        THEN [err |-> NoSourceVersionFound(in), etag |-> "", repo |-> <<>>,
              offset |-> <<>>, version |-> <<>>, cname |-> NoName]
        ELSE LET j == CHOOSE r \in rows : TRUE
             IN  [err |-> NilErr, etag |-> j.m.etag, repo |-> j.l.repo,
                  offset |-> j.l.offset, version |-> j.m.version,
                  cname |-> j.m.canonicalName]

\* the rows of docker_repo_name as a sequence, in the order of repo_name_id
RECURSIVE InIdOrder(_)
InIdOrder(rows) ==
    IF rows = {}
    THEN <<>>
    ELSE LET first == CHOOSE r \in rows :
                          \A o \in rows : r.repo_name_id <= o.repo_name_id
         IN  <<first>> \o InIdOrder(rows \ {first})

\* func (nc *NameCache) dbQueryOnSL(sl SourceLocation) (rs []string, err error)
dbQueryOnSL(d, sl) ==
    LET rows == {r \in d.docker_repo_name :
                    \E t \in d.repo_through_location, l \in d.docker_search_location :
                        /\ t.repo_name_id = r.repo_name_id
                        /\ t.location_id = l.location_id
                        /\ l.repo = sl.RepoURL
                        /\ l.offset = sl.RepoOffset}
        ordered == InIdOrder(rows)
    IN  [rs |-> [k \in 1..Len(ordered) |-> ordered[k].name],
         err |-> IF rows = {} THEN ErrOf("no repos found") ELSE NilErr]

\* func (nc *NameCache) dbQueryOnSV(sv SourceVersion): the rows all belong to
\* the one metadata row of the triple
dbQueryOnSV(d, sv) ==
    LET rows == {j \in NameMetadataLocation(d) :
                    /\ j.l.repo = sv.RepoURL
                    /\ j.l.offset = sv.RepoOffset
                    /\ j.m.version = VersionString(sv.Version)}
    IN  IF rows = {}
        THEN [cn |-> NoName, err |-> NoImageNameFound(sv)]
        ELSE [cn |-> (CHOOSE j \in rows : TRUE).m.canonicalName, err |-> NilErr]

\* func makeSourceVersion(repo, offset, version string) (SourceVersion, error)
makeSourceVersion(repo, offset, version) ==
    LET parsed == ParseVersion(version)
    IN  IF parsed.err
        THEN [sv |-> ZeroSourceVersion, err |-> ErrOf("semv")]
        ELSE [sv |-> SourceVersion(repo, parsed.v, offset), err |-> NilErr]

\* the four labels of an image
LabelKeys == {"repo", "version", "revision", "path"}

\* the label keys in the order SourceVersionFromLabels looks them up
LabelOrder == <<"repo", "version", "revision", "path">>

\* missingLabels, as the lookups of SourceVersionFromLabels build it
MissingLabels(labels) == SelectSeq(LabelOrder, LAMBDA k : k \notin DOMAIN labels)

\* SourceVersionFromLabels returning at the first missing label
SourceVersionFromLabelsFailFast(labels) ==
    IF MissingLabels(labels) # <<>>
    THEN [sv |-> ZeroSourceVersion, err |-> ErrOf("Missing labels"),
          missing |-> SubSeq(MissingLabels(labels), 1, 1)]
    ELSE LET parsed == ParseVersion(labels["version"])
             version == [parsed.v EXCEPT !.Meta = labels["revision"]]
         IN  [sv |-> SourceVersion(labels["repo"], version, labels["path"]),
              err |-> IF parsed.err THEN ErrOf("semv") ELSE NilErr,
              missing |-> <<>>]

\* func SourceVersionFromLabels(labels map[string]string) (SourceVersion, error);
\* missing is the list of keys the "Missing labels" error prints
SourceVersionFromLabels(labels) ==
    IF MissingLabels(labels) # <<>>
    THEN [sv |-> ZeroSourceVersion, err |-> ErrOf("Missing labels"),
          missing |-> MissingLabels(labels)]
    ELSE LET parsed == ParseVersion(labels["version"])
             version == [parsed.v EXCEPT !.Meta = labels["revision"]]
         IN  [sv |-> SourceVersion(labels["repo"], version, labels["path"]),
              err |-> IF parsed.err THEN ErrOf("semv") ELSE NilErr,
              missing |-> <<>>]

\* func (sv *SourceVersion) DockerLabels() map[string]string
DockerLabels(sv) ==
    [k \in LabelKeys |->
        CASE k = "version"  -> VersionFormatMmp(sv.Version)
          [] k = "revision" -> sv.Version.Meta
          [] k = "path"     -> sv.RepoOffset
          [] k = "repo"     -> sv.RepoURL]

\* the metadata of an image: metadata{Labels, CanonicalName, AllNames, Etag}
Metadata(labels, canonicalName, allNames, etag) ==
    [Labels |-> labels, CanonicalName |-> canonicalName,
     AllNames |-> allNames, Etag |-> etag]

\* registryClient.GetImageMetadata(in, etag): an error for an image the
\* registry does not have, not modified when etag is the image's current
\* etag, the metadata otherwise
GetImageMetadata(reg, in, etag) ==
    IF in \notin DOMAIN reg
    THEN [err |-> ErrOf("registry"), md |-> Metadata(<<>>, NoName, <<>>, "")]
    ELSE IF reg[in].Etag = etag
         THEN [err |-> NotModifiedErr, md |-> Metadata(<<>>, NoName, <<>>, "")]
         ELSE [err |-> NilErr, md |-> reg[in]]

\* what a fetch is recorded as
Fetch(in, etag, outcome) == [in |-> in, etag |-> etag, outcome |-> outcome]

\* the end of GetSourceVersion, from the return of dbInsert: ins is what
\* dbInsert returned, sv the cached source version, newSV and md what the
\* registry gave
StoreNames(ins, sv, newSV, md, fetch) ==
    IF ins.err.type # "nil"
    THEN Result(ins.db, ins.err, sv, NoName, fetch, 1, 0)
    ELSE LET added == dbAddNames(ins.db, md.CanonicalName, md.AllNames)
         IN  Result(added.db, added.err, newSV, NoName, fetch, 1, 0)

\* GetSourceVersion treating every registry error as "not modified"
GetSourceVersionSwallowing(d, reg, in) ==
    LET q      == dbQueryOnName(d, in)
        found  == q.err.type = "nil"
        made   == makeSourceVersion(q.repo, q.offset, q.version)
        sv     == IF found THEN made.sv ELSE ZeroSourceVersion
        got    == GetImageMetadata(reg, in, q.etag)
        md     == got.md
        fetch  == <<Fetch(in, q.etag, got.err.type)>>
        parsed == SourceVersionFromLabels(md.Labels)
        newSV  == parsed.sv
    IN  IF found /\ made.err.type # "nil"
        THEN Result(d, made.err, sv, NoName, <<>>, 0, 0)
        ELSE IF got.err.type # "nil"
        THEN Result(d, NilErr, sv, NoName, fetch, 0, 0)
        ELSE IF parsed.err.type # "nil"
        THEN Result(d, parsed.err, sv, NoName, fetch, 0, 0)
        ELSE StoreNames(dbInsert(d, newSV, md.CanonicalName, md.Etag),
                        sv, newSV, md, fetch)

\* func (nc *NameCache) GetSourceVersion(in string) (SourceVersion, error)
GetSourceVersion(d, reg, in) ==
    LET q      == dbQueryOnName(d, in)
        found  == q.err.type = "nil"
        made   == makeSourceVersion(q.repo, q.offset, q.version)
        sv     == IF found THEN made.sv ELSE ZeroSourceVersion
        got    == GetImageMetadata(reg, in, q.etag)
        md     == got.md
        fetch  == <<Fetch(in, q.etag, got.err.type)>>
        parsed == SourceVersionFromLabels(md.Labels)
        newSV  == parsed.sv
    IN  IF found /\ made.err.type # "nil"
        THEN Result(d, made.err, sv, NoName, <<>>, 0, 0)
        ELSE IF got.err.type = "NotModified"
        THEN Result(d, NilErr, sv, NoName, fetch, 0, 0)
        ELSE IF got.err.type # "nil"
        THEN Result(d, got.err, sv, NoName, fetch, 0, 0)
        ELSE IF parsed.err.type # "nil"
        THEN Result(d, parsed.err, sv, NoName, fetch, 0, 0)
        ELSE StoreNames(dbInsert(d, newSV, md.CanonicalName, md.Etag),
                        sv, newSV, md, fetch)

\* the tags a repository can have, in the order AllTags lists them
Tags == <<"t0", "t1", "t2">>

\* registryClient.AllTags(r): the tags of the images the registry has for r;
\* an error when it has none
AllTags(reg, r) ==
    LET ts == SelectSeq(Tags, LAMBDA t : ImageRef(r, t) \in DOMAIN reg)
    IN  [ts |-> ts, err |-> IF ts = <<>> THEN ErrOf("registry") ELSE NilErr]

\* harvest after one more GetSourceVersion, which returned got: its error
\* and its source version are dropped
Harvested(acc, got) ==
    Result(got.db, NilErr, ZeroSourceVersion, NoName,
           acc.fetches \o got.fetches, acc.inserts + got.inserts, 0)

\* the inner loop of harvest: GetSourceVersion for each tag of r, whatever
\* it returns
RECURSIVE HarvestTags(_, _, _, _)
HarvestTags(acc, reg, r, ts) ==
    IF ts = <<>>
    THEN acc
    ELSE HarvestTags(Harvested(acc, GetSourceVersion(acc.db, reg,
                                                     ImageRef(r, Head(ts)))),
                     reg, r, Tail(ts))

\* the outer loop of harvest: it returns at the first repository name that
\* does not parse, and skips a repository whose tags cannot be listed
RECURSIVE HarvestRepos(_, _, _)
HarvestRepos(acc, reg, repos) ==
    IF repos = <<>>
    THEN acc
    ELSE LET r  == Head(repos)
             ts == AllTags(reg, r)
         IN  IF ~ParseNamedOK(ImageRef(r, ""))
             THEN [acc EXCEPT !.err = ErrOf("ParseNamed")]
             ELSE IF ts.err.type # "nil"
             THEN HarvestRepos(acc, reg, Tail(repos))
             ELSE HarvestRepos(HarvestTags(acc, reg, r, ts.ts), reg, Tail(repos))

\* func (nc *NameCache) harvest(sl SourceLocation) error
harvest(d, reg, sl) ==
    LET q == dbQueryOnSL(d, sl)
    IN  IF q.err.type # "nil"
        THEN Result(d, q.err, ZeroSourceVersion, NoName, <<>>, 0, 0)
        ELSE HarvestRepos(Result(d, NilErr, ZeroSourceVersion, NoName, <<>>, 0, 0),
                          reg, q.rs)

\* the end of GetImageName, from the return of harvest: h is what harvest
\* returned
LookupAgain(h, sv) ==
    LET q2 == dbQueryOnSV(h.db, sv)
    IN  IF h.err.type # "nil"
        THEN Result(h.db, h.err, ZeroSourceVersion, NoName, h.fetches, h.inserts, 1)
        ELSE IF q2.err.type # "nil"
        THEN Result(h.db, q2.err, ZeroSourceVersion, NoName, h.fetches, h.inserts, 2)
        ELSE Result(h.db, NilErr, ZeroSourceVersion, q2.cn, h.fetches, h.inserts, 2)

\* func (nc *NameCache) GetImageName(sv SourceVersion) (string, error)
GetImageName(d, reg, sv) ==
    LET q1 == dbQueryOnSV(d, sv)
    IN  IF q1.err.type = "nil"
        THEN Result(d, NilErr, ZeroSourceVersion, q1.cn, <<>>, 0, 1)
        ELSE LookupAgain(harvest(d, reg, CanonicalName(sv)), sv)

\* func (nc *NameCache) GetCanonicalName(in string) (string, error)
GetCanonicalName(d, in) ==
    LET q == dbQueryOnName(d, in)
    IN  Result(d, q.err, ZeroSourceVersion, q.cname, <<>>, 0, 0)

\* func (nc *NameCache) Insert(sv SourceVersion, in, etag string) error
Insert(d, sv, in, etag) ==
    LET ins == dbInsert(d, sv, in, etag)
    IN  Result(ins.db, ins.err, ZeroSourceVersion, NoName, <<>>, 1, 0)

----------------------------------------------------------------------------
(* The NameCache as a state machine: one action per call of its interface  *)

\* the number of NameCache calls in a behaviour
MaxCacheOps == 3

LocA == SourceLocation(<<"g", "/", "a">>, <<>>)
LocB == SourceLocation(<<"g", "/", "b">>, <<"o">>)

SVa1  == SourceVersion(LocA.RepoURL, V1, LocA.RepoOffset)
SVa1m == SourceVersion(LocA.RepoURL, V1m, LocA.RepoOffset)
SVa2  == SourceVersion(LocA.RepoURL, V2, LocA.RepoOffset)
SVb1  == SourceVersion(LocB.RepoURL, V1, LocB.RepoOffset)

N11 == ImageRef("r1", "t1")
N12 == ImageRef("r1", "t2")
N21 == ImageRef("r2", "t1")
N22 == ImageRef("r2", "t2")
N31 == ImageRef("r3", "t1")
BadName == ImageRef("Bad", "t1")

\* the registry at the start: r1:t1 is canonical and r1:t2 its alias; the
\* image r2:t1 reports r2:t2 as its canonical and only name; r2:t2 and r3:t1
\* are not in the registry
RegistryInit ==
    (N11 :> Metadata(DockerLabels(SVa1m), N11, <<N11, N12>>, "e1"))
    @@ (N12 :> Metadata(DockerLabels(SVa1m), N11, <<N11, N12>>, "e1"))
    @@ (N21 :> Metadata(DockerLabels(SVb1), N22, <<N22>>, "e2"))

\* the registry after a new image was pushed as r1:t1
RegistryPushed ==
    [RegistryInit EXCEPT
        ![N11] = Metadata(DockerLabels(SVa2), N11, <<N11>>, "e9")]

\* the arguments the calls are tried with
InsertSVs == {SVa1, SVa2, SVb1}

InsertNames == {[in |-> N11, etag |-> "e1"], [in |-> N11, etag |-> "e7"],
                [in |-> N21, etag |-> "e7"]}

QueriedNames == {N11, N12, N21, N31}

QueriedSVs == {SVa1, SVa1m, SVb1}

\* the goroutines of a race, and a goroutine that is not in one
Threads == {1, 2}

IdleThread ==
    [pc |-> "idle", op |-> "", sv |-> ZeroSourceVersion, in |-> NoName, etag |-> "",
     names |-> <<>>, start |-> EmptyDB, nid |-> 0, id |-> 0, err |-> NilErr]

\* NewNameCache: an empty store
CacheInit ==
    /\ db = EmptyDB
    /\ registry = RegistryInit
    /\ opLog = <<>>

NoRace == thr = [t \in Threads |-> IdleThread]

\* a call as the history records it: its arguments, the store and the
\* registry before it and what it returned
Op(op, sv, in, etag, res) ==
    [op |-> op, sv |-> sv, in |-> in, etag |-> etag, pre |-> db,
     reg |-> registry, res |-> res]

CacheCall(op, sv, in, etag, res) ==
    /\ Len(opLog) < MaxCacheOps
    /\ db' = res.db
    /\ opLog' = Append(opLog, Op(op, sv, in, etag, res))
    /\ UNCHANGED <<registry, thr, rectVars, call>>

DoInsert(sv, in, etag) ==
    CacheCall("Insert", sv, in, etag, Insert(db, sv, in, etag))

DoGetSourceVersion(in) ==
    CacheCall("GetSourceVersion", ZeroSourceVersion, in, "",
              GetSourceVersion(db, registry, in))

DoGetImageName(sv) ==
    CacheCall("GetImageName", sv, NoName, "", GetImageName(db, registry, sv))

DoGetCanonicalName(in) ==
    CacheCall("GetCanonicalName", ZeroSourceVersion, in, "", GetCanonicalName(db, in))

\* a new image is pushed to the registry as r1:t1
RegistryPush ==
    /\ registry = RegistryInit
    /\ Len(opLog) < MaxCacheOps
    /\ registry' = RegistryPushed
    /\ UNCHANGED <<db, opLog, thr, rectVars, call>>

CacheNext ==
    \/ \E sv \in InsertSVs, n \in InsertNames : DoInsert(sv, n.in, n.etag)
    \/ DoInsert(SVa1, BadName, "e1")
    \/ \E in \in QueriedNames : DoGetSourceVersion(in)
    \/ \E sv \in QueriedSVs : DoGetImageName(sv)
    \/ \E in \in QueriedNames : DoGetCanonicalName(in)
    \/ RegistryPush

----------------------------------------------------------------------------
(* The Rectifier *)

Creates == "rectifyCreates"
Deletes == "rectifyDeletes"
Modifys == "rectifyModifys"
Workers == {Creates, Deletes, Modifys}

\* the error values
CreateError(d, e) == [type |-> "CreateError", Deployment |-> d, Err |-> e]
DeleteError(d, e) == [type |-> "DeleteError", Deployment |-> d, Err |-> e]
ChangeError(pair, e) == [type |-> "ChangeError", Deployments |-> pair, Err |-> e]

\* the error a failing client call returns
ClientErr(op) == <<op, "failed">>

\* the image name client.ImageName resolves for a deployment
ImageName(d) == [image |-> d.SourceVersion]

\* the index, in delivery order, of the item worker w is working on
ItemNo(w) == Len(delivered[w])

\* a scheduler-client call, as the history records it
Call(w, op, args, ok) == [item |-> ItemNo(w), op |-> op, args |-> args, ok |-> ok]

\* errs <- e; continue: the worker puts e up for sending
Emit(w, e) ==
    /\ err' = [err EXCEPT ![w] = e]
    /\ emitted' = [emitted EXCEPT ![w] = Append(@, [item |-> ItemNo(w), error |-> e])]
    /\ pc' = [pc EXCEPT ![w] = "send"]

\* Rectify: the state when Rectify returns errs; the producer holds a batch of
\* at most MaxItems items
RectifyInit ==
    /\ pc = [w \in Workers |-> "range"]
    /\ cur = [w \in Workers |-> NoVal]
    /\ name = [w \in Workers |-> NoVal]
    /\ err = [w \in Workers |-> NoVal]
    /\ toSend \in {b \in [Workers -> 0..MaxItems] :
                      b[Creates] + b[Deletes] + b[Modifys] <= MaxItems}
    /\ inClosed = [w \in Workers |-> FALSE]
    /\ wg = 3
    /\ closerPc = "wait"
    /\ closeCount = 0
    /\ panicked = FALSE
    /\ received = <<>>
    /\ consumerDone = FALSE
    /\ uuids = 0
    /\ delivered = [w \in Workers |-> <<>>]
    /\ calls = [w \in Workers |-> <<>>]
    /\ emitted = [w \in Workers |-> <<>>]

\* no pure function has been called
NoCall == [fn |-> "none", in |-> NoVal, out |-> NoVal]

Init ==
    /\ RectifyInit
    /\ call = NoCall
    /\ CacheInit
    /\ NoRace

Running == ~panicked

errsClosed == closeCount > 0

\* back to the head of the for-range loop
Continue(w) ==
    /\ pc' = [pc EXCEPT ![w] = "range"]
    /\ cur' = [cur EXCEPT ![w] = NoVal]
    /\ name' = [name EXCEPT ![w] = NoVal]

Log(w, op, args, ok) == calls' = [calls EXCEPT ![w] = Append(@, Call(w, op, args, ok))]

\* a worker that takes its next item while its error is still waiting to be
\* received
RecvWhileSending(w, item, first) ==
    /\ Running
    /\ pc[w] \in {"range", "send"}
    /\ ~inClosed[w]
    /\ toSend[w] > 0
    /\ toSend' = [toSend EXCEPT ![w] = @ - 1]
    /\ cur' = [cur EXCEPT ![w] = item]
    /\ delivered' = [delivered EXCEPT ![w] = Append(@, item)]
    /\ pc' = [pc EXCEPT ![w] = first]
    /\ UNCHANGED <<name, err, inClosed, wg, closerPc, closeCount, panicked,
                   received, consumerDone, uuids, calls, emitted, call, cacheVars>>

\* for d := range cc: the producer hands the next item to worker w
Recv(w, item, first) ==
    /\ Running
    /\ pc[w] = "range"
    /\ ~inClosed[w]
    /\ toSend[w] > 0
    /\ toSend' = [toSend EXCEPT ![w] = @ - 1]
    /\ cur' = [cur EXCEPT ![w] = item]
    /\ delivered' = [delivered EXCEPT ![w] = Append(@, item)]
    /\ pc' = [pc EXCEPT ![w] = first]
    /\ UNCHANGED <<name, err, inClosed, wg, closerPc, closeCount, panicked,
                   received, consumerDone, uuids, calls, emitted, call, cacheVars>>

RecvCreated(d) == Recv(Creates, d, "ImageName")

RecvDeleted(d) == Recv(Deletes, d, "DeleteRequest")

RecvModified(pair) == Recv(Modifys, pair, "changesReq")

\* a worker goroutine that ends without wg.Done()
RangeEndWithoutDone(w) ==
    /\ Running
    /\ pc[w] = "range"
    /\ toSend[w] = 0
    /\ inClosed' = [inClosed EXCEPT ![w] = TRUE]
    /\ pc' = [pc EXCEPT ![w] = "exit"]
    /\ UNCHANGED <<cur, name, err, toSend, wg, closerPc, closeCount, panicked,
                   received, consumerDone, uuids, delivered, calls, emitted, call, cacheVars>>

\* the producer, having sent all its items for worker w, has closed the
\* input channel: the for-range loop ends, the worker returns and its
\* goroutine calls wg.Done(). Only the worker's receive observes the close and
\* nothing observes the return before wg.Done(), so this is one step
RangeEnd(w) ==
    /\ Running
    /\ pc[w] = "range"
    /\ toSend[w] = 0
    /\ inClosed' = [inClosed EXCEPT ![w] = TRUE]
    /\ wg' = wg - 1
    /\ pc' = [pc EXCEPT ![w] = "exit"]
    /\ UNCHANGED <<cur, name, err, toSend, closerPc, closeCount, panicked,
                   received, consumerDone, uuids, delivered, calls, emitted, call, cacheVars>>

\* wg.Wait() returning while one worker is still running (wg.Add(2))
WgWaitEarly == wg <= 1

\* wg.Wait() returns
WgWait == wg = 0

CloserWait ==
    /\ Running
    /\ closerPc = "wait"
    /\ WgWait
    /\ closerPc' = "close"
    /\ UNCHANGED <<pc, cur, name, err, toSend, inClosed, wg, closeCount, panicked,
                   received, consumerDone, uuids, delivered, calls, emitted, call, cacheVars>>

\* close(errs)
CloserClose ==
    /\ Running
    /\ closerPc = "close"
    /\ closeCount' = closeCount + 1
    /\ closerPc' = "done"
    /\ UNCHANGED <<pc, cur, name, err, toSend, inClosed, wg, panicked,
                   received, consumerDone, uuids, delivered, calls, emitted, call, cacheVars>>

\* errs <- e followed by return instead of continue: the first failure ends
\* the worker
SendErrThenReturn(w) ==
    /\ Running
    /\ pc[w] = "send"
    /\ IF errsClosed
       THEN /\ panicked' = TRUE
            /\ UNCHANGED <<pc, cur, name, err, received, inClosed, wg>>
       ELSE /\ ~consumerDone
            /\ received' = Append(received, err[w])
            /\ err' = [err EXCEPT ![w] = NoVal]
            /\ inClosed' = [inClosed EXCEPT ![w] = TRUE]
            /\ wg' = wg - 1
            /\ pc' = [pc EXCEPT ![w] = "exit"]
            /\ cur' = [cur EXCEPT ![w] = NoVal]
            /\ name' = [name EXCEPT ![w] = NoVal]
            /\ UNCHANGED panicked
    /\ UNCHANGED <<toSend, closerPc, closeCount, consumerDone, uuids,
                   delivered, calls, emitted, call, cacheVars>>

\* errs <- e on a channel with a buffer: the worker goes on while the error
\* waits in the buffer
SendErrBuffered(w) ==
    /\ Running
    /\ pc[w] = "send"
    /\ IF errsClosed
       THEN /\ panicked' = TRUE
            /\ UNCHANGED <<pc, cur, name, err>>
       ELSE /\ err' = [err EXCEPT ![w] = NoVal]
            /\ Continue(w)
            /\ UNCHANGED panicked
    /\ UNCHANGED <<toSend, inClosed, wg, closerPc, closeCount, consumerDone, uuids,
                   received, delivered, calls, emitted, call, cacheVars>>

\* errs <- e: the consumer receives the error, or the send panics on the
\* closed channel
SendErr(w) ==
    /\ Running
    /\ pc[w] = "send"
    /\ IF errsClosed
       THEN /\ panicked' = TRUE
            /\ UNCHANGED <<pc, cur, name, err, received>>
       ELSE /\ ~consumerDone
            /\ received' = Append(received, err[w])
            /\ err' = [err EXCEPT ![w] = NoVal]
            /\ Continue(w)
            /\ UNCHANGED panicked
    /\ UNCHANGED <<toSend, inClosed, wg, closerPc, closeCount, consumerDone, uuids,
                   delivered, calls, emitted, call, cacheVars>>

\* the consumer's receive on the closed channel: end of stream
ConsumerEnd ==
    /\ Running
    /\ errsClosed
    /\ ~consumerDone
    /\ consumerDone' = TRUE
    /\ UNCHANGED <<pc, cur, name, err, toSend, inClosed, wg, closerPc, closeCount, panicked,
                   received, uuids, delivered, calls, emitted, call, cacheVars>>

----------------------------------------------------------------------------
(* rectifyCreates *)

\* rectifyCreates dropping the ImageName error: no CreateError, next item
CreateImageNameSwallowed(ok) ==
    /\ Running
    /\ pc[Creates] = "ImageName"
    /\ Log(Creates, "ImageName", <<cur[Creates]>>, ok)
    /\ IF ok
       THEN /\ name' = [name EXCEPT ![Creates] = ImageName(cur[Creates])]
            /\ pc' = [pc EXCEPT ![Creates] = "PostRequest"]
            /\ UNCHANGED cur
       ELSE Continue(Creates)
    /\ UNCHANGED <<err, emitted, toSend, inClosed, wg, closerPc, closeCount, panicked,
                   received, consumerDone, uuids, delivered, call, cacheVars>>

\* name, err := r.sing.ImageName(d)
CreateImageName(ok) ==
    /\ Running
    /\ pc[Creates] = "ImageName"
    /\ Log(Creates, "ImageName", <<cur[Creates]>>, ok)
    /\ IF ok
       THEN /\ name' = [name EXCEPT ![Creates] = ImageName(cur[Creates])]
            /\ pc' = [pc EXCEPT ![Creates] = "PostRequest"]
            /\ UNCHANGED <<err, emitted>>
       ELSE /\ Emit(Creates, CreateError(cur[Creates], ClientErr("ImageName")))
            /\ UNCHANGED name
    /\ UNCHANGED <<cur, toSend, inClosed, wg, closerPc, closeCount, panicked, received,
                   consumerDone, uuids, delivered, call, cacheVars>>

\* rectifyCreates ignoring the PostRequest error: no CreateError, Deploy follows
CreatePostRequestUnchecked(ok) ==
    /\ Running
    /\ pc[Creates] = "PostRequest"
    /\ LET d == cur[Creates]
       IN  Log(Creates, "PostRequest", <<d.Cluster, computeRequestID(d), d.NumInstances>>, ok)
    /\ pc' = [pc EXCEPT ![Creates] = "Deploy"]
    /\ UNCHANGED <<cur, name, err, emitted, toSend, inClosed, wg, closerPc, closeCount,
                   panicked, received, consumerDone, uuids, delivered, call, cacheVars>>

\* reqID := computeRequestID(d); err = r.sing.PostRequest(d.Cluster, reqID, d.NumInstances)
CreatePostRequest(ok) ==
    /\ Running
    /\ pc[Creates] = "PostRequest"
    /\ LET d == cur[Creates]
       IN  /\ Log(Creates, "PostRequest", <<d.Cluster, computeRequestID(d), d.NumInstances>>, ok)
           /\ IF ok
              THEN /\ pc' = [pc EXCEPT ![Creates] = "Deploy"]
                   /\ UNCHANGED <<err, emitted>>
              ELSE Emit(Creates, CreateError(d, ClientErr("PostRequest")))
    /\ UNCHANGED <<cur, name, toSend, inClosed, wg, closerPc, closeCount, panicked, received,
                   consumerDone, uuids, delivered, call, cacheVars>>

\* err = r.sing.Deploy(d.Cluster, newDepID(), reqID, name, d.Resources, d.Env, d.DeployConfig.Volumes)
CreateDeploy(ok) ==
    /\ Running
    /\ pc[Creates] = "Deploy"
    /\ uuids' = uuids + 1
    /\ LET d == cur[Creates]
       IN  /\ Log(Creates, "Deploy",
                  <<d.Cluster, newDepID(uuids'), computeRequestID(d), name[Creates],
                    d.Resources, d.Env, d.Volumes>>, ok)
           /\ IF ok
              THEN /\ Continue(Creates)
                   /\ UNCHANGED <<err, emitted>>
              ELSE /\ Emit(Creates, CreateError(d, ClientErr("Deploy")))
                   /\ UNCHANGED <<cur, name>>
    /\ UNCHANGED <<toSend, inClosed, wg, closerPc, closeCount, panicked, received,
                   consumerDone, delivered, call, cacheVars>>

----------------------------------------------------------------------------
(* rectifyDeletes *)

DeleteMessage == "deleting request for removed manifest"

\* rectifyDeletes addressing the request by d.RequestID, not the computed id
DeleteRequestByRawID(ok) ==
    /\ Running
    /\ pc[Deletes] = "DeleteRequest"
    /\ LET d == cur[Deletes]
       IN  /\ Log(Deletes, "DeleteRequest", <<d.Cluster, d.RequestID, DeleteMessage>>, ok)
           /\ IF ok
              THEN /\ Continue(Deletes)
                   /\ UNCHANGED <<err, emitted>>
              ELSE /\ Emit(Deletes, DeleteError(d, ClientErr("DeleteRequest")))
                   /\ UNCHANGED <<cur, name>>
    /\ UNCHANGED <<toSend, inClosed, wg, closerPc, closeCount, panicked, received,
                   consumerDone, uuids, delivered, call, cacheVars>>

\* rectifyDeletes calling DeleteRequest for d again after it failed, before
\* giving up on the second failure
DeleteRequestRetried(ok) ==
    /\ Running
    /\ pc[Deletes] = "DeleteRequest"
    /\ LET d == cur[Deletes]
           retried == \E k \in 1..Len(calls[Deletes]) :
                          calls[Deletes][k].item = ItemNo(Deletes)
       IN  /\ Log(Deletes, "DeleteRequest", <<d.Cluster, computeRequestID(d), DeleteMessage>>, ok)
           /\ IF ok
              THEN /\ Continue(Deletes)
                   /\ UNCHANGED <<err, emitted>>
              ELSE IF retried
              THEN /\ Emit(Deletes, DeleteError(d, ClientErr("DeleteRequest")))
                   /\ UNCHANGED <<cur, name>>
              ELSE UNCHANGED <<pc, cur, name, err, emitted>>
    /\ UNCHANGED <<toSend, inClosed, wg, closerPc, closeCount, panicked, received,
                   consumerDone, uuids, delivered, call, cacheVars>>

\* err := r.sing.DeleteRequest(d.Cluster, computeRequestID(d), "deleting request for removed manifest")
DeleteRequest(ok) ==
    /\ Running
    /\ pc[Deletes] = "DeleteRequest"
    /\ LET d == cur[Deletes]
       IN  /\ Log(Deletes, "DeleteRequest", <<d.Cluster, computeRequestID(d), DeleteMessage>>, ok)
           /\ IF ok
              THEN /\ Continue(Deletes)
                   /\ UNCHANGED <<err, emitted>>
              ELSE /\ Emit(Deletes, DeleteError(d, ClientErr("DeleteRequest")))
                   /\ UNCHANGED <<cur, name>>
    /\ UNCHANGED <<toSend, inClosed, wg, closerPc, closeCount, panicked, received,
                   consumerDone, uuids, delivered, call, cacheVars>>

----------------------------------------------------------------------------
(* rectifyModifys *)

ScaleMessage == "rectified scaling"

\* if r.changesReq(pair) {
ModifyChangesReq ==
    /\ Running
    /\ pc[Modifys] = "changesReq"
    /\ pc' = [pc EXCEPT ![Modifys] = IF changesReq(cur[Modifys]) THEN "Scale" ELSE "changesDep"]
    /\ UNCHANGED <<cur, name, err, toSend, inClosed, wg, closerPc, closeCount, panicked,
                   received, consumerDone, uuids, delivered, calls, emitted, call, cacheVars>>

\* rectifyModifys without the continue after a failed Scale: the error is
\* dropped and the redeploy check follows
ModifyScaleFallsThrough(ok) ==
    /\ Running
    /\ pc[Modifys] = "Scale"
    /\ LET pair == cur[Modifys]
       IN  Log(Modifys, "Scale",
               <<pair.post.Cluster, computeRequestID(pair.post),
                 pair.post.NumInstances, ScaleMessage>>, ok)
    /\ pc' = [pc EXCEPT ![Modifys] = "changesDep"]
    /\ UNCHANGED <<cur, name, err, emitted, toSend, inClosed, wg, closerPc, closeCount,
                   panicked, received, consumerDone, uuids, delivered, call, cacheVars>>

\* err := r.sing.Scale(pair.post.Cluster, computeRequestID(pair.post), pair.post.NumInstances, "rectified scaling")
ModifyScale(ok) ==
    /\ Running
    /\ pc[Modifys] = "Scale"
    /\ LET pair == cur[Modifys]
       IN  /\ Log(Modifys, "Scale",
                  <<pair.post.Cluster, computeRequestID(pair.post),
                    pair.post.NumInstances, ScaleMessage>>, ok)
           /\ IF ok
              THEN /\ pc' = [pc EXCEPT ![Modifys] = "changesDep"]
                   /\ UNCHANGED <<err, emitted>>
              ELSE Emit(Modifys, ChangeError(pair, ClientErr("Scale")))
    /\ UNCHANGED <<cur, name, toSend, inClosed, wg, closerPc, closeCount, panicked, received,
                   consumerDone, uuids, delivered, call, cacheVars>>

\* if changesDep(pair) {
ModifyChangesDep ==
    /\ Running
    /\ pc[Modifys] = "changesDep"
    /\ IF changesDep(cur[Modifys])
       THEN /\ pc' = [pc EXCEPT ![Modifys] = "ImageName"]
            /\ UNCHANGED <<cur, name>>
       ELSE Continue(Modifys)
    /\ UNCHANGED <<err, toSend, inClosed, wg, closerPc, closeCount, panicked,
                   received, consumerDone, uuids, delivered, calls, emitted, call, cacheVars>>

\* name, err := r.sing.ImageName(pair.post)
ModifyImageName(ok) ==
    /\ Running
    /\ pc[Modifys] = "ImageName"
    /\ LET pair == cur[Modifys]
       IN  /\ Log(Modifys, "ImageName", <<pair.post>>, ok)
           /\ IF ok
              THEN /\ name' = [name EXCEPT ![Modifys] = ImageName(pair.post)]
                   /\ pc' = [pc EXCEPT ![Modifys] = "Deploy"]
                   /\ UNCHANGED <<err, emitted>>
              ELSE /\ Emit(Modifys, ChangeError(pair, ClientErr("ImageName")))
                   /\ UNCHANGED name
    /\ UNCHANGED <<cur, toSend, inClosed, wg, closerPc, closeCount, panicked, received,
                   consumerDone, uuids, delivered, call, cacheVars>>

\* rectifyModifys deploying to the request id of post instead of prior
ModifyDeployToPost(ok) ==
    /\ Running
    /\ pc[Modifys] = "Deploy"
    /\ uuids' = uuids + 1
    /\ LET pair == cur[Modifys]
       IN  /\ Log(Modifys, "Deploy",
                  <<pair.post.Cluster, newDepID(uuids'), computeRequestID(pair.post),
                    name[Modifys], pair.post.Resources, pair.post.Env, pair.post.Volumes>>, ok)
           /\ IF ok
              THEN /\ Continue(Modifys)
                   /\ UNCHANGED <<err, emitted>>
              ELSE /\ Emit(Modifys, ChangeError(pair, ClientErr("Deploy")))
                   /\ UNCHANGED <<cur, name>>
    /\ UNCHANGED <<toSend, inClosed, wg, closerPc, closeCount, panicked, received,
                   consumerDone, delivered, call, cacheVars>>

\* err = r.sing.Deploy(pair.post.Cluster, newDepID(), computeRequestID(pair.prior), name,
\*                     pair.post.Resources, pair.post.Env, pair.post.DeployConfig.Volumes)
ModifyDeploy(ok) ==
    /\ Running
    /\ pc[Modifys] = "Deploy"
    /\ uuids' = uuids + 1
    /\ LET pair == cur[Modifys]
       IN  /\ Log(Modifys, "Deploy",
                  <<pair.post.Cluster, newDepID(uuids'), computeRequestID(pair.prior),
                    name[Modifys], pair.post.Resources, pair.post.Env, pair.post.Volumes>>, ok)
           /\ IF ok
              THEN /\ Continue(Modifys)
                   /\ UNCHANGED <<err, emitted>>
              ELSE /\ Emit(Modifys, ChangeError(pair, ClientErr("Deploy")))
                   /\ UNCHANGED <<cur, name>>
    /\ UNCHANGED <<toSend, inClosed, wg, closerPc, closeCount, panicked, received,
                   consumerDone, delivered, call, cacheVars>>

----------------------------------------------------------------------------
(* Specifications *)

Producer ==
    \/ \E d \in DeploymentPool : RecvCreated(d)
    \/ \E d \in DeploymentPool : RecvDeleted(d)
    \/ \E pair \in PairPool : RecvModified(pair)

WorkerStep(w) ==
    \/ RangeEnd(w)
    \/ SendErr(w)
    \/ /\ w = Creates
       /\ \E ok \in BOOLEAN : CreateImageName(ok) \/ CreatePostRequest(ok) \/ CreateDeploy(ok)
    \/ /\ w = Deletes
       /\ \E ok \in BOOLEAN : DeleteRequest(ok)
    \/ /\ w = Modifys
       /\ \/ ModifyChangesReq
          \/ ModifyChangesDep
          \/ \E ok \in BOOLEAN : ModifyScale(ok) \/ ModifyImageName(ok) \/ ModifyDeploy(ok)

Closer == CloserWait \/ CloserClose

\* a step of worker w, the receive of its next item included
WorkerOrRecv(w) ==
    \/ WorkerStep(w)
    \/ w = Creates /\ \E d \in DeploymentPool : RecvCreated(d)
    \/ w = Deletes /\ \E d \in DeploymentPool : RecvDeleted(d)
    \/ w = Modifys /\ \E pair \in PairPool : RecvModified(pair)

Next ==
    \/ Producer
    \/ \E w \in Workers : WorkerStep(w)
    \/ Closer
    \/ ConsumerEnd

Spec == Init /\ [][Next]_vars

\* The items of the liveness specification: one deployment, a pair that needs
\* no call and a pair that needs both a scale and a redeploy
LiveDeploymentPool == {DepB}

LivePairPool ==
    { Pair(DepA, [DepA EXCEPT !.Volumes = "vols2"]),
      Pair(DepA, [DepB EXCEPT !.SourceVersion.RepoURL = DepA.SourceVersion.RepoURL]) }

\* what the producer does for worker w: send the next item
LiveProducerStep(w) ==
    \/ /\ w = Creates
       /\ \E d \in LiveDeploymentPool : RecvCreated(d)
    \/ /\ w = Deletes
       /\ \E d \in LiveDeploymentPool : RecvDeleted(d)
    \/ /\ w = Modifys
       /\ \E pair \in LivePairPool : RecvModified(pair)

FairNext ==
    \/ \E w \in Workers : LiveProducerStep(w)
    \/ \E w \in Workers : WorkerStep(w)
    \/ Closer
    \/ ConsumerEnd

\* every goroutine that can take a step eventually takes one (every client
\* call returns), the producer sends its batch (and then closes each input
\* channel, which ends the worker's loop), and the consumer keeps receiving
FairSpec ==
    /\ Init
    /\ [][FairNext]_vars
    /\ \A w \in Workers : WF_vars(WorkerStep(w))
    /\ \A w \in Workers : WF_vars(LiveProducerStep(w))
    /\ WF_vars(Closer)
    /\ WF_vars(ConsumerEnd)

----------------------------------------------------------------------------
(* The pure functions, each applied once to an input from a bounded set *)

\* the deployments computeRequestID is tried on: without a RequestID, every
\* repo URL and offset up to MaxStrLen; with every RequestID up to MaxStrLen,
\* the source versions of DepA and DepB
RequestIDInputs ==
    {[DepA EXCEPT !.SourceVersion.RepoURL = repo,
                  !.SourceVersion.RepoOffset = offset] :
        repo \in StringsUpTo(MaxStrLen) \ {<<>>},
        offset \in StringsUpTo(MaxStrLen)}
    \cup
    {[d EXCEPT !.RequestID = id] :
        id \in StringsUpTo(MaxStrLen) \ {<<>>},
        d \in DeploymentPool}

PureInit ==
    /\ RectifyInit
    /\ toSend = [w \in Workers |-> 0]
    /\ call = NoCall
    /\ CacheInit
    /\ NoRace

CallComputeRequestID(d) ==
    /\ call = NoCall
    /\ call' = [fn |-> "computeRequestID", in |-> d, out |-> computeRequestID(d)]
    /\ UNCHANGED <<rectVars, cacheVars>>

\* the strings over the characters cs of length at most n
RECURSIVE StringsOver(_, _)
StringsOver(cs, n) ==
    IF n = 0 THEN {<<>>}
    ELSE {<<>>} \cup {<<c>> \o s : c \in cs, s \in StringsOver(cs, n - 1)}

\* a letter, a path separator, the separator String() writes before an offset
\* and the default delimiter
ParseChars == {"a", "/", ":", ","}

VersionPool == {V1, V1m, V2, Version(1, 2, 3, <<"b">>, <<>>)}

\* the repo URLs the round trips are tried on: a letter first, as in a host
\* name, so that the parsers use the default delimiter
ParseRepoURLs == {<<"a">> \o s : s \in StringsOver(ParseChars, MaxStrLen - 1)}

\* the source versions and locations the round trips are tried on
SourceVersionInputs ==
    {SourceVersion(repo, v, offset) :
        repo \in ParseRepoURLs,
        v \in VersionPool,
        offset \in StringsOver(ParseChars, MaxOffsetLen)}

SourceLocationInputs ==
    {SourceLocation(repo, offset) :
        repo \in ParseRepoURLs,
        offset \in StringsOver(ParseChars, MaxOffsetLen)}

\* the repo URLs DockerImageName is tried on: a protocol or none, a host or
\* none, an organisation or none, and the rest
DockerRepoURLs ==
    {proto \o host \o org \o rest :
        proto \in {<<>>, <<"h", "t", "t", "p", "s", ":", "/", "/">>,
                    <<"g", "i", "t", ":", "/", "/">>},
        host \in {<<>>, Github \o <<".">> \o Com, Github \o <<"x">> \o Com,
                   <<"h", "u", "b", ".", "i", "o">>},
        org \in {<<>>, SlashOpentable, <<"/", "o", "t">>},
        rest \in {<<"/", "f", "o", "o">>, <<"f", "o", "o">>}}

DockerNameInputs ==
    {SourceVersion(repo, v, offset) :
        repo \in DockerRepoURLs,
        v \in VersionPool,
        offset \in {<<>>, <<"s", "u", "b">>}}

\* ParseSourceVersion(sv.String())
CallParseSourceVersion(sv) ==
    /\ call = NoCall
    /\ call' = [fn |-> "ParseSourceVersion", in |-> sv,
                out |-> ParseSourceVersion(SourceVersionString(sv))]
    /\ UNCHANGED <<rectVars, cacheVars>>

\* ParseCanonicalName(sl.String())
CallParseCanonicalName(sl) ==
    /\ call = NoCall
    /\ call' = [fn |-> "ParseCanonicalName", in |-> sl,
                out |-> ParseCanonicalName(SourceLocationString(sl))]
    /\ UNCHANGED <<rectVars, cacheVars>>

\* sv.DockerImageName()
CallDockerImageName(sv) ==
    /\ call = NoCall
    /\ call' = [fn |-> "DockerImageName", in |-> sv, out |-> DockerImageName(sv)]
    /\ UNCHANGED <<rectVars, cacheVars>>

\* the strings the parsers are tried on: every string up to MaxStrLen over
\* ParseChars, the empty string among them, and strings with a version chunk,
\* with and without a repository chunk, an offset chunk and a delimiter of
\* their own
RawInputs ==
    StringsOver(ParseChars, MaxStrLen)
    \cup {lead \o repo \o <<delim>> \o v \o tail :
            lead \in {<<>>, <<":">>},
            repo \in {<<>>, <<"a">>},
            delim \in {",", ":"},
            v \in {VersionString(V1), <<"b">>},
            tail \in {<<>>, <<",", "o">>, <<":", "o">>}}

\* ParseSourceVersion(source)
CallParseSourceVersionOf(source) ==
    /\ call = NoCall
    /\ call' = [fn |-> "ParseSourceVersion(source)", in |-> [source |-> source],
                out |-> ParseSourceVersion(source)]
    /\ UNCHANGED <<rectVars, cacheVars>>

\* ParseCanonicalName(source)
CallParseCanonicalNameOf(source) ==
    /\ call = NoCall
    /\ call' = [fn |-> "ParseCanonicalName(source)", in |-> [source |-> source],
                out |-> ParseCanonicalName(source)]
    /\ UNCHANGED <<rectVars, cacheVars>>

\* the label maps SourceVersionFromLabels is tried on: every subset of the
\* four keys, with a version that parses or not and with or without build
\* metadata of its own, and a revision that is empty or not
FullLabels ==
    {[k \in LabelKeys |->
        CASE k = "version"  -> v
          [] k = "revision" -> rev
          [] k = "path"     -> path
          [] k = "repo"     -> LocA.RepoURL] :
        v \in {VersionString(V1), VersionString(V1m), VersionString(V2),
                <<"b", "a", "d">>},
        rev \in {<<>>, <<"c">>},
        path \in {<<>>, <<"o">>}}

LabelInputs ==
    {[k \in keys |-> full[k]] : full \in FullLabels, keys \in SUBSET LabelKeys}

\* SourceVersionFromLabels(labels)
CallSourceVersionFromLabels(labels) ==
    /\ call = NoCall
    /\ call' = [fn |-> "SourceVersionFromLabels", in |-> labels,
                out |-> SourceVersionFromLabels(labels)]
    /\ UNCHANGED <<rectVars, cacheVars>>

\* one call per behaviour
PureNext ==
    /\ call = NoCall
    /\ \/ \E d \in RequestIDInputs : CallComputeRequestID(d)
       \/ \E sv \in SourceVersionInputs : CallParseSourceVersion(sv)
       \/ \E sl \in SourceLocationInputs : CallParseCanonicalName(sl)
       \/ \E sv \in DockerNameInputs : CallDockerImageName(sv)
       \/ \E labels \in LabelInputs : CallSourceVersionFromLabels(labels)
       \/ \E source \in RawInputs : CallParseSourceVersionOf(source)
       \/ \E source \in RawInputs : CallParseCanonicalNameOf(source)

PureSpec == PureInit /\ [][PureNext]_vars

\* the NameCache, one call after another
CacheSpec == PureInit /\ [][CacheNext]_vars

\* the NameCache populated right after builds: the inserted versions carry
\* build metadata or not, and an image is inserted that the registry does
\* not have yet
BuildSVs == {SVa1m, SVa2, SVb1}

BuildQueriedSVs == BuildSVs \cup {SVa1}

N10 == ImageRef("r1", "t0")

\* the registry of the builds: r1:t0 is an image built without the revision
\* label
BuildRegistry ==
    (N10 :> Metadata([k \in LabelKeys \ {"revision"} |-> DockerLabels(SVa1)[k]],
                     N10, <<N10>>, "e0"))
    @@ RegistryInit

BuildInit ==
    /\ RectifyInit
    /\ toSend = [w \in Workers |-> 0]
    /\ call = NoCall
    /\ db = EmptyDB
    /\ registry = BuildRegistry
    /\ opLog = <<>>
    /\ NoRace

BuildNames == {[in |-> N11, etag |-> "e7"], [in |-> N31, etag |-> "e7"]}

BuildQueriedNames == {N11, N12, N31}

BuildNext ==
    \/ \E sv \in BuildSVs, n \in BuildNames : DoInsert(sv, n.in, n.etag)
    \/ \E in \in BuildQueriedNames : DoGetSourceVersion(in)
    \/ \E sv \in BuildQueriedSVs : DoGetImageName(sv)
    \/ \E in \in BuildQueriedNames : DoGetCanonicalName(in)

BuildSpec == BuildInit /\ [][BuildNext]_vars

----------------------------------------------------------------------------
(* Two calls that write the same key, run by two goroutines on the shared   *)
(* store: every SQL statement of dbInsert and dbAddNames is one step        *)

\* a goroutine about to run dbInsert(sv, in, etag) and, in GetSourceVersion,
\* dbAddNames(in, names), on the store start
Racing(op, sv, in, etag, names, start) ==
    [pc |-> "s1", op |-> op, sv |-> sv, in |-> in, etag |-> etag,
     names |-> names, start |-> start, nid |-> 0, id |-> 0, err |-> NilErr]

\* the writes two racing calls can make: an Insert, or the writes of a
\* GetSourceVersion that got the fresh metadata of an image
RacingCalls(start) ==
    {Racing("Insert", sv, n.in, n.etag, <<>>, start) :
        sv \in InsertSVs, n \in InsertNames}
    \cup
    {Racing("GetSourceVersion", SourceVersionFromLabels(RegistryInit[in].Labels).sv,
            RegistryInit[in].CanonicalName, RegistryInit[in].Etag,
            RegistryInit[in].AllNames, start) :
        in \in DOMAIN RegistryInit}

\* the stores a race starts on: the empty one, and one that holds a mapping
RaceStarts == {EmptyDB, dbInsert(EmptyDB, SVa1, N11, "e1").db}

RaceInit ==
    /\ RectifyInit
    /\ toSend = [w \in Workers |-> 0]
    /\ call = NoCall
    /\ registry = RegistryInit
    /\ opLog = <<>>
    /\ db \in RaceStarts
    /\ \E c \in RacingCalls(db) : thr = [t \in Threads |-> c]

\* the goroutine returns from its call with the error e
RaceReturn(t, e) == thr' = [thr EXCEPT ![t].pc = "done", ![t].err = e]

RaceFrame == UNCHANGED <<registry, opLog, rectVars, call>>

\* reference.ParseNamed(in) and the insert into docker_repo_name
RaceRepoName(t) ==
    /\ thr[t].pc = "s1"
    /\ IF ~ParseNamedOK(thr[t].in)
       THEN RaceReturn(t, ErrOf("ParseNamed")) /\ UNCHANGED db
       ELSE LET s == InsertRepoName(db, thr[t].in.repo)
            IN  /\ db' = s.db
                /\ thr' = [thr EXCEPT ![t].pc = "s2", ![t].nid = s.id]
    /\ RaceFrame

\* the insert into docker_search_location
RaceLocation(t) ==
    /\ thr[t].pc = "s2"
    /\ LET s == InsertLocation(db, thr[t].sv.RepoURL, thr[t].sv.RepoOffset)
       IN  /\ db' = s.db
           /\ thr' = [thr EXCEPT ![t].pc = "s3", ![t].id = s.id]
    /\ RaceFrame

\* the insert into repo_through_location
RaceThrough(t) ==
    /\ thr[t].pc = "s3"
    /\ LET s == InsertThrough(db, thr[t].nid, thr[t].id)
       IN  /\ db' = s.db
           /\ IF s.ok
              THEN thr' = [thr EXCEPT ![t].pc = "s4"]
              ELSE RaceReturn(t, ErrOf("FOREIGN KEY"))
    /\ RaceFrame

\* the insert into docker_search_metadata
RaceMetadata(t) ==
    /\ thr[t].pc = "s4"
    /\ LET s == InsertMetadata(db, thr[t].id, thr[t].etag, thr[t].in,
                               VersionFormatMmp(thr[t].sv.Version))
       IN  /\ db' = s.db
           /\ IF s.ok
              THEN thr' = [thr EXCEPT ![t].pc = "s5", ![t].id = s.id]
              ELSE RaceReturn(t, ErrOf("FOREIGN KEY"))
    /\ RaceFrame

\* the insert into docker_search_name; Insert returns, GetSourceVersion goes
\* on to dbAddNames
RaceName(t) ==
    /\ thr[t].pc = "s5"
    /\ LET s == InsertName(db, thr[t].id, thr[t].in)
       IN  /\ db' = s.db
           /\ IF ~s.ok
              THEN RaceReturn(t, ErrOf("FOREIGN KEY"))
              ELSE IF thr[t].op = "Insert"
              THEN RaceReturn(t, NilErr)
              ELSE thr' = [thr EXCEPT ![t].pc = "a0"]
    /\ RaceFrame

\* dbAddNames: select metadata_id from docker_search_metadata where
\* canonicalName = $1
RaceSelect(t) ==
    /\ thr[t].pc = "a0"
    /\ LET rows == {m.metadata_id :
                       m \in {x \in db.docker_search_metadata :
                                 x.canonicalName = thr[t].in}}
       IN  IF rows = {}
           THEN RaceReturn(t, ErrOf("sql.ErrNoRows"))
           ELSE IF thr[t].names = <<>>
           THEN RaceReturn(t, NilErr)
           ELSE thr' = [thr EXCEPT ![t].pc = "a1", ![t].id = Min(rows)]
    /\ UNCHANGED db
    /\ RaceFrame

\* dbAddNames: add.Exec(id, n) for the next name
RaceAddName(t) ==
    /\ thr[t].pc = "a1"
    /\ LET s == InsertName(db, thr[t].id, Head(thr[t].names))
       IN  /\ db' = s.db
           /\ IF ~s.ok
              THEN RaceReturn(t, ErrOf("FOREIGN KEY"))
              ELSE IF Tail(thr[t].names) = <<>>
              THEN RaceReturn(t, NilErr)
              ELSE thr' = [thr EXCEPT ![t].names = Tail(@)]
    /\ RaceFrame

RaceStep(t) ==
    \/ RaceRepoName(t)
    \/ RaceLocation(t)
    \/ RaceThrough(t)
    \/ RaceMetadata(t)
    \/ RaceName(t)
    \/ RaceSelect(t)
    \/ RaceAddName(t)

RaceNext == \E t \in Threads : RaceStep(t)

RaceSpec == RaceInit /\ [][RaceNext]_vars

----------------------------------------------------------------------------
(* Properties *)

AllReturned == \A w \in Workers : pc[w] = "exit"

\* C1: the error stream is closed at most once (exactly once when the closing
\* goroutine has finished), close(errs) is executed only after all three
\* workers have returned, and no worker sends on the stream after the close
\* (no worker is at a send and no send has panicked)
C1_ClosedOnceAfterAllWorkers ==
    /\ closeCount <= 1
    /\ (closerPc = "done") = (closeCount = 1)
    /\ closerPc \in {"close", "done"} => AllReturned
    /\ errsClosed => \A w \in Workers : pc[w] # "send"
    /\ ~panicked

\* the stream is closed after workers of two kinds have emitted errors
C1_Witness ==
    /\ errsClosed
    /\ Len(received) = 2
    /\ received[1].type # received[2].type

\* the type of the errors worker w emits
ErrorType(w) ==
    CASE w = Creates -> "CreateError"
      [] w = Deletes -> "DeleteError"
      [] w = Modifys -> "ChangeError"

\* the errors worker w has emitted, in order
ErrorsOf(w) == [k \in 1..Len(emitted[w]) |-> emitted[w][k].error]

\* the errors of worker w among those the consumer received, in order
ReceivedFrom(w) == SelectSeq(received, LAMBDA e : e.type = ErrorType(w))

\* C2: when the producer sends its batch and closes the three channels, every
\* client call returns and the consumer keeps receiving, the consumer reaches
\* the end of the stream, and by then it has received every error that any
\* worker emitted
C2_AllErrorsThenEndOfStream ==
    /\ <>consumerDone
    /\ [](consumerDone => \A w \in Workers : ReceivedFrom(w) = ErrorsOf(w))

\* the consumer reaches the end of the stream after receiving two errors
C2_Witness ==
    /\ consumerDone
    /\ Len(received) = 2
    /\ \E w \in Workers : Len(emitted[w]) = 2

\* the calls worker w made for its i-th item
CallsFor(w, i) == SelectSeq(calls[w], LAMBDA c : c.item = i)

\* worker w has made a client call for its i-th item
HasCall(w, i) == CallsFor(w, i) # <<>>

\* worker w is through with its i-th item
Finished(w, i) ==
    \/ Len(delivered[w]) > i
    \/ Len(delivered[w]) = i /\ pc[w] \in {"range", "exit"}

\* a modify pair that requires neither a scale nor a redeploy
NoOpPair(pair) ==
    /\ pair.prior.NumInstances = pair.post.NumInstances
    /\ pair.prior.SourceVersion.RepoURL = pair.post.SourceVersion.RepoURL
    /\ pair.prior.SourceVersion.RepoOffset = pair.post.SourceVersion.RepoOffset
    /\ [pair.prior.SourceVersion.Version EXCEPT !.Meta = <<>>]
         = [pair.post.SourceVersion.Version EXCEPT !.Meta = <<>>]
    /\ pair.prior.Resources = pair.post.Resources
    /\ pair.prior.Env = pair.post.Env

\* C3 as stated: a worker that has returned has made a client call for every
\* item delivered to it
C3_Original ==
    \A w \in Workers :
        pc[w] = "exit" => \A i \in 1..Len(delivered[w]) : HasCall(w, i)

\* the i-th item of worker w has been delivered and processed: its first
\* client call is made, or it is a pair that requires no call and the worker
\* is through with it
Processed(w, i) ==
    /\ Len(delivered[w]) >= i
    /\ IF w = Modifys /\ NoOpPair(delivered[w][i])
       THEN Finished(w, i)
       ELSE HasCall(w, i)

\* C3 (amended): with a consumer that drains the error stream, every item of
\* the producer's batch is eventually delivered and processed, whichever
\* client calls failed before: its first client call is made, unless it is
\* a modify pair that requires neither scale nor redeploy, for which no call
\* is made
C3_EveryItemProcessed ==
    <>(\A w \in Workers :
          /\ toSend[w] = 0
          /\ \A i \in 1..Len(delivered[w]) : Processed(w, i))

\* the second item of a kind gets its first call after a call for the first
\* item of that kind failed
C3_Witness ==
    \E w \in Workers :
        /\ Len(delivered[w]) = 2
        /\ \E k \in 1..Len(calls[w]) : calls[w][k].item = 1 /\ ~calls[w][k].ok
        /\ HasCall(w, 2)

\* the names of the calls in a sequence of calls
Ops(cs) == [k \in 1..Len(cs) |-> cs[k].op]

\* the errors worker w emitted while working on its i-th item
ErrorsFor(w, i) ==
    LET es == SelectSeq(emitted[w], LAMBDA x : x.item = i)
    IN  [k \in 1..Len(es) |-> es[k].error]

\* the calls of worker w that returned an error
FailedCalls(w) == SelectSeq(calls[w], LAMBDA c : ~c.ok)

\* the calls named op that worker w made
CallsOf(w, op) == SelectSeq(calls[w], LAMBDA c : c.op = op)

\* worker w has left its loop
Returned(w) == pc[w] = "exit"

\* the created deployments whose image-name resolution failed
ImageNameFailures ==
    {i \in 1..Len(delivered[Creates]) :
        \E k \in 1..Len(calls[Creates]) :
            /\ calls[Creates][k].item = i
            /\ calls[Creates][k].op = "ImageName"
            /\ ~calls[Creates][k].ok}

\* no PostRequest and no Deploy of the create worker failed
OnlyImageNameFails ==
    \A k \in 1..Len(calls[Creates]) :
        ~calls[Creates][k].ok => calls[Creates][k].op = "ImageName"

\* C4: when rectifyCreates has gone through N created deployments of which M
\* failed image-name resolution (no PostRequest or Deploy failing), it has
\* emitted exactly M CreateErrors, one for each failing deployment and
\* carrying it, all handed to the consumer; it has called PostRequest and
\* then Deploy exactly once for each of the other N-M deployments and made
\* no such call for the M failing ones
C4_CreateErrorsPerImageNameFailure ==
    (Returned(Creates) /\ OnlyImageNameFails) =>
        LET N == Len(delivered[Creates])
            F == ImageNameFailures
        IN  /\ Len(emitted[Creates]) = Cardinality(F)
            /\ ReceivedFrom(Creates) = ErrorsOf(Creates)
            /\ Len(CallsOf(Creates, "PostRequest")) = N - Cardinality(F)
            /\ Len(CallsOf(Creates, "Deploy")) = N - Cardinality(F)
            /\ \A i \in F :
                   /\ Ops(CallsFor(Creates, i)) = <<"ImageName">>
                   /\ Len(ErrorsFor(Creates, i)) = 1
                   /\ ErrorsFor(Creates, i)[1].type = "CreateError"
                   /\ ErrorsFor(Creates, i)[1].Deployment = delivered[Creates][i]
            /\ \A i \in (1..N) \ F :
                   /\ Ops(CallsFor(Creates, i)) = <<"ImageName", "PostRequest", "Deploy">>
                   /\ ErrorsFor(Creates, i) = <<>>

\* two created deployments, one of which failed image-name resolution
C4_Witness ==
    /\ Returned(Creates)
    /\ OnlyImageNameFails
    /\ Len(delivered[Creates]) = 2
    /\ Cardinality(ImageNameFailures) = 1

\* the i-th modify pair has differing instance counts and its Scale failed
ScaleFailed(i) ==
    /\ i <= Len(delivered[Modifys])
    /\ delivered[Modifys][i].prior.NumInstances # delivered[Modifys][i].post.NumInstances
    /\ \E k \in 1..Len(calls[Modifys]) :
           /\ calls[Modifys][k].item = i
           /\ calls[Modifys][k].op = "Scale"
           /\ ~calls[Modifys][k].ok

\* C5: for a modify pair whose instance counts differ and whose Scale call
\* failed, exactly one ChangeError carrying the pair is emitted and the only
\* call made for the pair is that Scale: no ImageName and no Deploy, also
\* when the pair's source version, resources or env differ
C5_ScaleFailureSuppressesDeploy ==
    \A i \in 1..Len(delivered[Modifys]) :
        ScaleFailed(i) =>
            /\ Ops(CallsFor(Modifys, i)) = <<"Scale">>
            /\ Len(ErrorsFor(Modifys, i)) = 1
            /\ ErrorsFor(Modifys, i)[1].type = "ChangeError"
            /\ ErrorsFor(Modifys, i)[1].Deployments = delivered[Modifys][i]
            /\ Finished(Modifys, i) => ErrorsFor(Modifys, i)[1] \in {received[k] : k \in 1..Len(received)}

\* the Scale of a pair that also changes its source version has failed and
\* the worker has moved on
C5_Witness ==
    \E i \in 1..Len(delivered[Modifys]) :
        /\ ScaleFailed(i)
        /\ delivered[Modifys][i].prior.SourceVersion.Version
             # delivered[Modifys][i].post.SourceVersion.Version
        /\ Finished(Modifys, i)

\* the i-th modify pair requires a scale and a redeploy, its Scale call
\* succeeded and the worker is through with the pair
ScaledAndDone(i) ==
    LET pair == delivered[Modifys][i]
    IN  /\ pair.prior.NumInstances # pair.post.NumInstances
        /\ ~NoOpPair([pair EXCEPT !.post.NumInstances = pair.prior.NumInstances])
        /\ \E k \in 1..Len(calls[Modifys]) :
               /\ calls[Modifys][k].item = i
               /\ calls[Modifys][k].op = "Scale"
               /\ calls[Modifys][k].ok
        /\ Finished(Modifys, i)

\* the first call for the pair is Scale, addressed to post's cluster and
\* request id with post's instance count
ScaleCallOK(c, pair) ==
    /\ c.op = "Scale"
    /\ c.args[1] = pair.post.Cluster
    /\ c.args[2] = computeRequestID(pair.post)
    /\ c.args[3] = pair.post.NumInstances

\* the call resolves the image name of post
ImageNameCallOK(c, pair) ==
    /\ c.op = "ImageName"
    /\ c.args = <<pair.post>>

\* the call is a Deploy of the image resolved for post, addressed to the
\* request id of prior with post's cluster, resources, env and volumes
DeployCallOK(c, pair) ==
    /\ c.op = "Deploy"
    /\ c.args[1] = pair.post.Cluster
    /\ c.args[3] = computeRequestID(pair.prior)
    /\ c.args[4] = ImageName(pair.post)
    /\ c.args[5] = pair.post.Resources
    /\ c.args[6] = pair.post.Env
    /\ c.args[7] = pair.post.Volumes

\* C6 as stated: for a pair that requires both and whose Scale succeeded the
\* calls are Scale, ImageName(post), Deploy, each exactly once
C6_Original ==
    \A i \in 1..Len(delivered[Modifys]) :
        ScaledAndDone(i) =>
            LET cs == CallsFor(Modifys, i)
                pair == delivered[Modifys][i]
            IN  /\ Len(cs) = 3
                /\ ScaleCallOK(cs[1], pair)
                /\ ImageNameCallOK(cs[2], pair)
                /\ DeployCallOK(cs[3], pair)

\* C6 (amended): for a pair that requires both and whose Scale succeeded the
\* calls are Scale, then ImageName(post), each exactly once, and then, exactly
\* when ImageName succeeded, one Deploy; Scale goes to the request id of post
\* with post's instance count, Deploy to the request id of prior with post's
\* cluster, resources, env and volumes
C6_ScaleThenImageNameThenDeploy ==
    \A i \in 1..Len(delivered[Modifys]) :
        ScaledAndDone(i) =>
            LET cs == CallsFor(Modifys, i)
                pair == delivered[Modifys][i]
            IN  /\ Len(cs) >= 2
                /\ ScaleCallOK(cs[1], pair)
                /\ ImageNameCallOK(cs[2], pair)
                /\ IF cs[2].ok
                   THEN Len(cs) = 3 /\ DeployCallOK(cs[3], pair)
                   ELSE Len(cs) = 2

\* a pair that requires both has been scaled and deployed, the two calls
\* going to different request ids
C6_Witness ==
    \E i \in 1..Len(delivered[Modifys]) :
        /\ ScaledAndDone(i)
        /\ Len(CallsFor(Modifys, i)) = 3
        /\ CallsFor(Modifys, i)[1].args[2] # CallsFor(Modifys, i)[3].args[3]

\* C7: for every deployment d delivered on the deleted channel the worker
\* makes exactly one DeleteRequest call, with d's cluster and d's computed
\* request id; exactly one DeleteError carrying d is emitted if that call
\* failed and none if it succeeded, and either way the worker is back at the
\* head of its loop for the next deployment
C7_OneDeleteRequestPerDeployment ==
    \A i \in 1..Len(delivered[Deletes]) :
        LET d == delivered[Deletes][i]
            cs == CallsFor(Deletes, i)
            es == ErrorsFor(Deletes, i)
        IN  /\ Len(cs) <= 1
            /\ Len(cs) = 0 => i = Len(delivered[Deletes]) /\ pc[Deletes] = "DeleteRequest"
            /\ Len(cs) = 1 =>
                   /\ cs[1].op = "DeleteRequest"
                   /\ cs[1].args = <<d.Cluster,
                                     IF d.RequestID # <<>> THEN d.RequestID
                                     ELSE idify(SourceLocationString(CanonicalName(d.SourceVersion))),
                                     DeleteMessage>>
                   /\ IF cs[1].ok
                      THEN es = <<>>
                      ELSE es = <<DeleteError(d, ClientErr("DeleteRequest"))>>
                   /\ \/ Finished(Deletes, i)
                      \/ pc[Deletes] = "send" /\ ~cs[1].ok /\ err[Deletes] = es[1]

\* a second deployment is deleted after the delete of the first one failed
C7_Witness ==
    /\ Len(delivered[Deletes]) = 2
    /\ Len(calls[Deletes]) = 2
    /\ ~calls[Deletes][1].ok
    /\ delivered[Deletes][2].RequestID = <<>>

\* the number of client calls that returned an error
NumFailedCalls ==
    Len(FailedCalls(Creates)) + Len(FailedCalls(Deletes)) + Len(FailedCalls(Modifys))

\* C8: when the error stream is closed, the number of errors emitted on it
\* (and received by the consumer) equals the number of client calls that
\* returned an error; the stream closes without an entry exactly when no
\* client call failed
C8_ErrorsEqualFailedCalls ==
    errsClosed =>
        /\ Len(received) = NumFailedCalls
        /\ Len(emitted[Creates]) + Len(emitted[Deletes]) + Len(emitted[Modifys]) = NumFailedCalls
        /\ (received = <<>>) = (NumFailedCalls = 0)

\* the stream is closed after two calls failed
C8_Witness ==
    /\ errsClosed
    /\ NumFailedCalls = 2
    /\ \E k \in 1..Len(calls[Creates]) : calls[Creates][k].op = "PostRequest" /\ ~calls[Creates][k].ok

\* C9: computeRequestID(d) is d.RequestID unchanged when that is not empty;
\* otherwise it is the canonical string of d's source location (the repo
\* URL, followed by a colon and the offset when there is an offset) with
\* every '-', '/' and ':' removed, and so contains none of them
C9_ComputeRequestID ==
    call.fn = "computeRequestID" =>
        LET d == call.in
            sv == d.SourceVersion
            location == IF sv.RepoOffset = <<>>
                        THEN sv.RepoURL
                        ELSE sv.RepoURL \o <<":">> \o sv.RepoOffset
        IN  IF d.RequestID # <<>>
            THEN call.out = d.RequestID
            ELSE /\ call.out = SelectSeq(location, LAMBDA c : c \notin {"-", "/", ":"})
                 /\ \A k \in 1..Len(call.out) : call.out[k] \notin {"-", "/", ":"}

\* a request id derived from a location with an offset, shorter than the
\* location string
C9_Witness ==
    /\ call.fn = "computeRequestID"
    /\ call.in.RequestID = <<>>
    /\ call.in.SourceVersion.RepoOffset = <<"a", "/">>
    /\ call.in.SourceVersion.RepoURL = <<"-", "a">>
    /\ call.out = <<"a", "a">>

\* the source versions, resources or env of the pair differ in value
DeployDiffers(pair) ==
    \/ pair.prior.SourceVersion.RepoURL # pair.post.SourceVersion.RepoURL
    \/ pair.prior.SourceVersion.RepoOffset # pair.post.SourceVersion.RepoOffset
    \/ [pair.prior.SourceVersion.Version EXCEPT !.Meta = <<>>]
         # [pair.post.SourceVersion.Version EXCEPT !.Meta = <<>>]
    \/ pair.prior.Resources # pair.post.Resources
    \/ pair.prior.Env # pair.post.Env

\* C10: for every pair the modify worker got, changesReq is true iff the
\* instance counts differ and changesDep is true iff source version,
\* resources or env differ; the worker calls Scale exactly for the pairs
\* with changesReq and, unless that Scale failed, ImageName exactly for the
\* pairs with changesDep; a pair for which both are false causes no client
\* call and no error
C10_ChangesReqChangesDep ==
    \A i \in 1..Len(delivered[Modifys]) :
        LET pair == delivered[Modifys][i]
            ops == Ops(CallsFor(Modifys, i))
            has(op) == \E k \in 1..Len(ops) : ops[k] = op
        IN  /\ changesReq(pair) = (pair.prior.NumInstances # pair.post.NumInstances)
            /\ changesDep(pair) = DeployDiffers(pair)
            /\ Finished(Modifys, i) =>
                   /\ has("Scale") = changesReq(pair)
                   /\ ~ScaleFailed(i) => has("ImageName") = changesDep(pair)
            /\ (~changesReq(pair) /\ ~changesDep(pair)) =>
                   /\ ops = <<>>
                   /\ ErrorsFor(Modifys, i) = <<>>

\* the worker has passed over a pair that differs only in its volumes and
\* redeployed a pair that differs only in its env
C10_Witness ==
    /\ Len(delivered[Modifys]) = 2
    /\ Finished(Modifys, 2)
    /\ delivered[Modifys][1].post = [DepA EXCEPT !.Volumes = "vols2"]
    /\ delivered[Modifys][2].post = [DepA EXCEPT !.Env = Env2]
    /\ Ops(calls[Modifys]) = <<"ImageName", "Deploy">>

\* C11: for any SourceVersion sv, with or without a repo offset,
\* ParseSourceVersion(sv.String()) returns no error and a value equal to sv
C11_Original ==
    call.fn = "ParseSourceVersion" =>
        /\ ~call.out.panic
        /\ call.out.err = "nil"
        /\ SourceVersionEqual(call.out.val, call.in)

\* C12: for any SourceLocation sl, with an empty or a non-empty RepoOffset,
\* ParseCanonicalName(sl.String()) returns no error and a value equal to sl
C12_Original ==
    call.fn = "ParseCanonicalName" =>
        /\ ~call.out.panic
        /\ call.out.err = "nil"
        /\ call.out.val = call.in

\* C13: DockerImageName of a SourceVersion whose RepoURL is
\* <protocol>://github.com/opentable/<name>, whose offset is empty and whose
\* version is M.m.p is <name>:M.m.p; for https://github.com/opentable/foo,
\* no offset and version 2.0.0 it is foo:2.0.0
C13_Original ==
    /\ call.fn = "DockerImageName"
    /\ \E proto \in {<<"h", "t", "t", "p", "s", ":", "/", "/">>,
                      <<"g", "i", "t", ":", "/", "/">>} :
          call.in.RepoURL = proto \o Github \o <<".">> \o Com \o SlashOpentable
                            \o <<"/", "f", "o", "o">>
    /\ call.in.RepoOffset = <<>>
    /\ call.in.Version.Pre = <<>>
    => call.out = <<"f", "o", "o", ":">> \o VersionFormatMmp(call.in.Version)

\* the calls of the history
OpIndices == 1..Len(opLog)

\* the store holds a row for the image name in
HasRow(d, in) == dbQueryOnName(d, in).err.type = "nil"

\* C14: GetSourceVersion(in) on a cache holding no row for in (the registry
\* having the image) makes exactly one GetImageMetadata call, with an empty
\* etag, and exactly one store insert; a second GetSourceVersion(in) with the
\* registry unchanged makes one GetImageMetadata call carrying the etag the
\* first call stored, gets "not modified", makes no insert and returns the
\* source version the first call returned
C14_Original ==
    \A k \in OpIndices :
        LET a == opLog[k]
        IN  /\ a.op = "GetSourceVersion"
            /\ a.in \in DOMAIN a.reg
            /\ ~HasRow(a.pre, a.in)
            => /\ a.res.fetches = <<Fetch(a.in, "", "nil")>>
               /\ a.res.inserts = 1
               /\ k < Len(opLog) =>
                    LET b == opLog[k + 1]
                    IN  /\ b.op = "GetSourceVersion"
                        /\ b.in = a.in
                        /\ b.reg = a.reg
                        => /\ b.res.fetches =
                                <<Fetch(a.in, a.reg[a.in].Etag, "NotModified")>>
                           /\ b.res.inserts = 0
                           /\ b.res.err = NilErr
                           /\ SourceVersionEqual(b.res.sv, a.res.sv)

\* sv has no canonical name in the store
NoNameFor(d, sv) == dbQueryOnSV(d, sv).err.type # "nil"

\* C15: whenever GetImageName(sv) finds no canonical name for sv before and
\* after harvesting (also when the cache knows no repository name for sv's
\* source location), it fails with NoImageNameFound carrying sv, and it looks
\* the store up at most twice
C15_Original ==
    \A k \in OpIndices :
        LET a == opLog[k]
        IN  /\ a.op = "GetImageName"
            /\ NoNameFor(a.pre, a.sv)
            /\ NoNameFor(a.res.db, a.sv)
            => /\ a.res.err = NoImageNameFound(a.sv)
               /\ a.res.lookups <= 2

\* the metadata rows of the store d with their location rows
MetadataLocation(d) ==
    {j \in [m : d.docker_search_metadata, l : d.docker_search_location] :
        j.m.location_id = j.l.location_id}

\* the metadata rows d holds for the triple of sv
TripleRows(d, sv) ==
    {j.m : j \in {x \in MetadataLocation(d) :
                     /\ x.l.repo = sv.RepoURL
                     /\ x.l.offset = sv.RepoOffset
                     /\ x.m.version = VersionFormatMmp(sv.Version)}}

\* no two metadata rows of d are for the same (RepoURL, RepoOffset, Version)
OneRowPerTriple(d) ==
    \A j1, j2 \in MetadataLocation(d) :
        /\ j1.l.repo = j2.l.repo
        /\ j1.l.offset = j2.l.offset
        /\ j1.m.version = j2.m.version
        => j1.m = j2.m

\* the call stored a mapping: a successful Insert, or a GetSourceVersion that
\* inserted fresh metadata
Stored(a) ==
    /\ a.res.err = NilErr
    /\ a.res.inserts = 1
    /\ a.op \in {"Insert", "GetSourceVersion"}

\* the source version, canonical name and etag a storing call inserted
StoredSV(a) == IF a.op = "Insert" THEN a.sv ELSE a.res.sv

StoredName(a) == IF a.op = "Insert" THEN a.in ELSE a.reg[a.in].CanonicalName

StoredEtag(a) == IF a.op = "Insert" THEN a.etag ELSE a.reg[a.in].Etag

\* C16: after any sequence of Insert and GetSourceVersion calls every
\* (RepoURL, RepoOffset, Version) triple has at most one metadata row, and so
\* at most one canonical name; a call that stores a mapping for a triple
\* leaves the triple with the canonical name and etag it inserted, also when
\* the triple was already present (last write wins)
C16_OneRowPerTripleLastWriteWins ==
    /\ OneRowPerTriple(db)
    /\ \A k \in OpIndices :
        LET a == opLog[k]
        IN  Stored(a) =>
                /\ OneRowPerTriple(a.res.db)
                /\ \E m \in TripleRows(a.res.db, StoredSV(a)) :
                      /\ TripleRows(a.res.db, StoredSV(a)) = {m}
                      /\ m.canonicalName = StoredName(a)
                      /\ m.etag = StoredEtag(a)

\* an Insert for a triple that was present with another canonical name and
\* another etag
C16_Witness ==
    \E k \in OpIndices :
        LET a == opLog[k]
        IN  /\ a.op = "Insert"
            /\ Stored(a)
            /\ \E m \in TripleRows(a.pre, a.sv) :
                  m.canonicalName # a.in /\ m.etag # a.etag

\* the alias rows of d for the image name in
AliasRows(d, in) == {n \in d.docker_search_name : n.name = in}

\* no image name occurs in two alias rows of d
OneRowPerName(d) ==
    \A n1, n2 \in d.docker_search_name : n1.name = n2.name => n1 = n2

\* C17: after any sequence of Insert and GetSourceVersion calls every image
\* name occurs in at most one alias row; a successful Insert leaves exactly
\* one alias row for its name, bound to the metadata row it inserted, also
\* when the name was present before, so that inserting the same
\* (sourceVersion, name, etag) twice leaves exactly one alias row
C17_OneAliasRowPerName ==
    /\ OneRowPerName(db)
    /\ \A k \in OpIndices :
        LET a == opLog[k]
        IN  a.op = "Insert" /\ Stored(a) =>
                /\ OneRowPerName(a.res.db)
                /\ Cardinality(AliasRows(a.res.db, a.in)) = 1
                /\ \A n \in AliasRows(a.res.db, a.in) :
                      \E m \in TripleRows(a.res.db, a.sv) :
                          n.metadata_id = m.metadata_id

\* the same (sourceVersion, name, etag) inserted twice, and a name rebound
\* from the metadata row of another location
C17_Witness ==
    /\ Len(opLog) = 3
    /\ \A k \in 1..3 : opLog[k].op = "Insert" /\ Stored(opLog[k])
    /\ opLog[1].in = opLog[2].in
    /\ opLog[1].sv.RepoURL # opLog[2].sv.RepoURL
    /\ opLog[3].sv = opLog[2].sv
    /\ opLog[3].in = opLog[2].in
    /\ opLog[3].etag = opLog[2].etag
    /\ TripleRows(db, opLog[1].sv) # {}

\* the image names a storing call writes alias rows for
StoredNames(a) ==
    IF a.op = "Insert"
    THEN {a.in}
    ELSE {a.reg[a.in].CanonicalName}
         \cup {a.reg[a.in].AllNames[i] : i \in 1..Len(a.reg[a.in].AllNames)}

\* the alias names d holds for the triple of sv
AliasNames(d, sv) ==
    {n.name : n \in {x \in d.docker_search_name :
                        \E m \in TripleRows(d, sv) : x.metadata_id = m.metadata_id}}

\* C18: cache rows are never removed: once a mapping from (location, version
\* v1) to an image name is stored, a call (Insert or GetSourceVersion) that
\* stores a mapping for another version v2 of the same location, under other
\* image names, leaves the v1 mapping in place: the lookup GetImageName makes
\* for v1 and the lookups of v1's alias names still succeed from the store
C18_Original ==
    \A k \in OpIndices :
        LET a == opLog[k]
        IN  Stored(a) =>
                \A v1 \in InsertSVs :
                    /\ CanonicalName(v1) = CanonicalName(StoredSV(a))
                    /\ VersionFormatMmp(v1.Version) # VersionFormatMmp(StoredSV(a).Version)
                    /\ ~NoNameFor(a.pre, v1)
                    /\ AliasNames(a.pre, v1) \cap StoredNames(a) = {}
                    => /\ ~NoNameFor(a.res.db, v1)
                       /\ dbQueryOnSV(a.res.db, v1).cn = dbQueryOnSV(a.pre, v1).cn
                       /\ \A n \in AliasNames(a.pre, v1) : HasRow(a.res.db, n)

\* C20: after GetSourceVersion(in) succeeds on fresh registry metadata the
\* store holds a row keyed by the queried name in with the new etag:
\* GetCanonicalName(in) succeeds and the next GetSourceVersion(in) sends that
\* etag to the registry, for every in, also one that is neither the
\* metadata's canonical name nor among its alias names
C20_Original ==
    \A k \in OpIndices :
        LET a == opLog[k]
        IN  a.op = "GetSourceVersion" /\ Stored(a) =>
                /\ GetCanonicalName(a.res.db, a.in).err = NilErr
                /\ GetSourceVersion(a.res.db, a.reg, a.in).fetches
                       = <<Fetch(a.in, a.reg[a.in].Etag, "NotModified")>>

\* the content of the store d without its autoincrement keys
Content(d) ==
    [repos     |-> {r.name : r \in d.docker_repo_name},
     locations |-> {<<l.repo, l.offset>> : l \in d.docker_search_location},
     through   |-> {<<p[1].name, p[2].repo, p[2].offset>> :
                       p \in {q \in d.docker_repo_name \X d.docker_search_location :
                           \E j \in d.repo_through_location :
                               /\ j.repo_name_id = q[1].repo_name_id
                               /\ j.location_id = q[2].location_id}},
     metadata  |-> {<<j.l.repo, j.l.offset, j.m.version, j.m.etag, j.m.canonicalName>> :
                       j \in MetadataLocation(d)},
     names     |-> {<<j.n.name, j.l.repo, j.l.offset, j.m.version>> :
                       j \in NameMetadataLocation(d)},
     rows      |-> <<Cardinality(d.docker_repo_name), Cardinality(d.docker_search_location),
                     Cardinality(d.repo_through_location),
                     Cardinality(d.docker_search_metadata),
                     Cardinality(d.docker_search_name)>>]

\* the store one call c leaves when it runs alone
Alone(c) ==
    LET ins == dbInsert(c.start, c.sv, c.in, c.etag)
    IN  IF c.op = "Insert"
        THEN ins.db
        ELSE dbAddNames(ins.db, c.in, c.names).db

\* C19: when two calls that write the same key (two Insert calls, or two
\* GetSourceVersion calls that got the same fresh metadata) run concurrently
\* with their SQL statements interleaved in any order, both return without
\* error and the final content of the store is that of one such call run alone
C19_Original ==
    (\A t \in Threads : thr[t].pc = "done") =>
        /\ \A t \in Threads : thr[t].err = NilErr
        /\ Content(db) = Content(Alone(thr[1]))

\* what the registry answers to the fetch of the recorded GetSourceVersion
\* call a: the etag sent is the one the store had for a.in
RegistryAnswer(a) ==
    GetImageMetadata(a.reg, a.in, dbQueryOnName(a.pre, a.in).etag)

\* the registry failed the fetch of the recorded GetSourceVersion call a
RegistryFailed(a) ==
    /\ a.op = "GetSourceVersion"
    /\ RegistryAnswer(a).err.type \notin {"nil", "NotModified"}

\* C21: when GetImageMetadata returns an error other than "not modified",
\* GetSourceVersion returns that same error and leaves the store as it was:
\* it makes no insert and adds no alias
C21_RegistryErrorReturnedStoreUnchanged ==
    \A k \in OpIndices :
        LET a == opLog[k]
        IN  RegistryFailed(a) =>
                /\ a.res.err = RegistryAnswer(a).err
                /\ a.res.db = a.pre
                /\ a.res.inserts = 0
                /\ Len(a.res.fetches) = 1

\* a GetSourceVersion call for a name the store has a row for, which the
\* registry failed
C21_Witness ==
    \E k \in OpIndices :
        /\ RegistryFailed(opLog[k])
        /\ HasRow(opLog[k].pre, opLog[k].in)
        /\ opLog[k].res.err.type = "registry"

\* C22: after Insert(sv, name, etag) succeeds, for every sv, with or without
\* build metadata in its version, GetImageName(sv) returns name without any
\* registry call, and GetCanonicalName(name) returns name
C22_Original ==
    \A k \in OpIndices :
        LET a      == opLog[k]
            byName == GetImageName(a.res.db, a.reg, a.sv)
            byCN   == GetCanonicalName(a.res.db, a.in)
        IN  a.op = "Insert" /\ a.res.err = NilErr =>
                /\ byName.err = NilErr
                /\ byName.in = a.in
                /\ byName.fetches = <<>>
                /\ byCN.err = NilErr
                /\ byCN.in = a.in

\* the names the registry reported for the image of the recorded
\* GetSourceVersion call a: the canonical name and the alias names
ReportedNames(a) ==
    {a.reg[a.in].CanonicalName}
    \cup {a.reg[a.in].AllNames[i] : i \in DOMAIN a.reg[a.in].AllNames}

\* C23: after GetSourceVersion stored fresh metadata with canonical name C
\* and alias names A, GetCanonicalName(n) returns C for n = C and for every n
\* in A, also when C was stored earlier for another source version
C23_CanonicalNameOfEveryReportedName ==
    \A k \in OpIndices :
        LET a == opLog[k]
        IN  a.op = "GetSourceVersion" /\ Stored(a) =>
                \A n \in ReportedNames(a) :
                    /\ GetCanonicalName(a.res.db, n).err = NilErr
                    /\ GetCanonicalName(a.res.db, n).in = a.reg[a.in].CanonicalName

\* a GetSourceVersion call that stored a canonical name with an alias, while
\* the store held, and still holds, a row with that canonical name for
\* another source version
C23_Witness ==
    \E k \in OpIndices :
        LET a == opLog[k]
        IN  /\ a.op = "GetSourceVersion"
            /\ Stored(a)
            /\ Cardinality(ReportedNames(a)) > 1
            /\ \E m \in a.pre.docker_search_metadata :
                  /\ m.canonicalName = a.reg[a.in].CanonicalName
                  /\ m \in a.res.db.docker_search_metadata
                  /\ m \notin TripleRows(a.res.db, a.res.sv)

\* the elements of the sequence q
Range(q) == {q[i] : i \in DOMAIN q}

\* C24: SourceVersionFromLabels, given a label map that lacks some of the
\* four required keys, returns one error that names every missing key, each
\* once, and no other key; given all four keys it returns a source version
\* whose version metadata is the revision label
C24_MissingLabelsAllNamed ==
    call.fn = "SourceVersionFromLabels" =>
        LET lacking == LabelKeys \ DOMAIN call.in
        IN  IF lacking # {}
            THEN /\ call.out.err.type = "Missing labels"
                 /\ Range(call.out.missing) = lacking
                 /\ Len(call.out.missing) = Cardinality(lacking)
            ELSE /\ call.out.err.type # "Missing labels"
                 /\ call.out.sv.Version.Meta = call.in["revision"]
                 /\ call.out.sv.RepoURL = call.in["repo"]
                 /\ call.out.sv.RepoOffset = call.in["path"]

\* a label map that has the first key looked up and lacks two later ones
C24_Witness ==
    /\ call.fn = "SourceVersionFromLabels"
    /\ "repo" \in DOMAIN call.in
    /\ Cardinality(LabelKeys \ DOMAIN call.in) = 2
    /\ Len(call.out.missing) = 2

\* the call is a parse of a string
ParsedString == call.fn \in {"ParseSourceVersion(source)", "ParseCanonicalName(source)"}

\* the first chunk of the non-empty string source is empty
EmptyFirstChunk(source) == Len(parseChunks(source).chunks[1]) = 0

\* C25: ParseSourceVersion and ParseCanonicalName never crash: on every
\* string, the empty string and a string with no delimiter and no version
\* chunk among them, they return a parsed value or an error; a string whose
\* first chunk is empty yields a MissingRepo error that carries the string
\* (in ParseCanonicalName a string of three chunks is an IncludesVersion
\* error first)
C25_Original ==
    ParsedString =>
        LET source == call.in.source
        IN  /\ ~call.out.panic
            /\ /\ source # <<>>
               /\ EmptyFirstChunk(source)
               /\ ~(call.fn = "ParseCanonicalName(source)"
                    /\ Len(parseChunks(source).chunks) > 2)
               => /\ call.out.err = "MissingRepo"
                  /\ call.out.parsing = source

\* the item an error of worker w carries
ItemIn(w, e) == IF w = Modifys THEN e.Deployments ELSE e.Deployment

\* C26: for every item of every kind at most one error is emitted; once a
\* scheduler-client call for the item has failed no further client call is
\* made for that item, neither a retry nor a later step; and the emitted
\* error carries exactly that item
C26_OneErrorNoCallAfterFailure ==
    \A w \in Workers :
        \A i \in 1..Len(delivered[w]) :
            LET cs == CallsFor(w, i)
                es == ErrorsFor(w, i)
            IN  /\ Len(es) <= 1
                /\ \A k \in 1..Len(cs) : ~cs[k].ok => k = Len(cs)
                /\ \A k \in 1..Len(es) :
                       /\ es[k].type = ErrorType(w)
                       /\ ItemIn(w, es[k]) = delivered[w][i]
                       /\ cs # <<>>
                       /\ ~cs[Len(cs)].ok
                       /\ es[k].Err = ClientErr(cs[Len(cs)].op)

\* a worker has gone on to its second item after a call other than the first
\* failed for its first item
C26_Witness ==
    \E w \in Workers :
        /\ Len(CallsFor(w, 1)) >= 2
        /\ ~CallsFor(w, 1)[Len(CallsFor(w, 1))].ok
        /\ Len(ErrorsFor(w, 1)) = 1
        /\ HasCall(w, 2)

\* how many errors worker w has emitted for its items up to the i-th
EmittedUpTo(w, i) ==
    Cardinality({k \in 1..Len(emitted[w]) : emitted[w][k].item <= i})

\* C27: within one kind the items are processed one after the other in the
\* order the producer delivered them: every client call for item i, and the
\* hand-over of its error to the consumer if it failed, come before item i+1
\* is taken and before the first client call for it; the errors of one kind
\* reach the consumer in delivery order
C27_SequentialInDeliveryOrder ==
    \A w \in Workers :
        /\ \A k \in 1..(Len(calls[w]) - 1) : calls[w][k].item <= calls[w][k + 1].item
        /\ \A k \in 1..(Len(emitted[w]) - 1) : emitted[w][k].item < emitted[w][k + 1].item
        /\ \A k \in 1..Len(calls[w]) :
               calls[w][k].item = Len(delivered[w]) \/ Finished(w, calls[w][k].item)
        /\ \A i \in 1..Len(delivered[w]) :
               Len(delivered[w]) > i => Len(ReceivedFrom(w)) >= EmittedUpTo(w, i)
        /\ Len(ReceivedFrom(w)) <= Len(ErrorsOf(w))
        /\ ReceivedFrom(w) = SubSeq(ErrorsOf(w), 1, Len(ReceivedFrom(w)))
        /\ pc[w] \notin {"range", "exit"} =>
               /\ delivered[w] # <<>>
               /\ cur[w] = delivered[w][Len(delivered[w])]

\* the consumer has received the errors of two different items of one kind
C27_Witness ==
    \E w \in Workers :
        /\ Len(delivered[w]) = 2
        /\ delivered[w][1] # delivered[w][2]
        /\ Len(ReceivedFrom(w)) = 2
        /\ ItemIn(w, ReceivedFrom(w)[1]) = delivered[w][1]
        /\ ItemIn(w, ReceivedFrom(w)[2]) = delivered[w][2]

\* worker w is blocked in its send on errs
Sending(w) == pc[w] = "send"

\* while worker w is blocked in its send, it makes no call and takes no item:
\* the only step that moves it is the consumer receiving its error
BlockedUntilReceived(w) ==
    Sending(w) =>
        \/ /\ pc'[w] = "send"
           /\ calls'[w] = calls[w]
           /\ delivered'[w] = delivered[w]
           /\ emitted'[w] = emitted[w]
        \/ received' = Append(received, err[w])

\* C28: the error stream has no buffer. A worker that has emitted an error
\* makes no further client call and takes no further item until the consumer
\* has received that error; meanwhile the stream is not closed, and the
\* workers of the other kinds are not held up: each of them that has not
\* returned and is not sending an error itself can take its next step. So
\* when the consumer stops receiving, a worker that meets a failing item
\* stays blocked and the stream is never closed
C28_NoBuffering ==
    /\ [][\A w \in Workers : BlockedUntilReceived(w)]_vars
    /\ [](\A w \in Workers :
            Sending(w) =>
                /\ closeCount = 0
                /\ closerPc = "wait"
                /\ ~consumerDone
                /\ emitted[w] # <<>>
                /\ err[w] = emitted[w][Len(emitted[w])].error
                /\ Len(ReceivedFrom(w)) = Len(emitted[w]) - 1
                /\ \A o \in Workers \ {w} :
                       pc[o] \notin {"send", "exit"} => ENABLED WorkerOrRecv(o))

\* two workers are blocked in their sends at once and the consumer has
\* received nothing: the second went on to its failing call while the first
\* was blocked
C28_Witness ==
    \E w, o \in Workers :
        /\ w # o
        /\ Sending(w)
        /\ Sending(o)
        /\ received = <<>>
        /\ closeCount = 0

\* the recorded call a is a GetImageName that ran harvest over the
\* repositories of the wanted location
HarvestRan(a) ==
    /\ a.op = "GetImageName"
    /\ dbQueryOnSV(a.pre, a.sv).err.type # "nil"
    /\ dbQueryOnSL(a.pre, CanonicalName(a.sv)).err.type = "nil"

\* the fetch f of the recorded call a ended in an error of GetSourceVersion:
\* the registry failed or the labels of the image do not make a source
\* version
FetchFailed(a, f) ==
    \/ f.outcome = "registry"
    \/ /\ f.outcome = "nil"
       /\ SourceVersionFromLabels(a.reg[f.in].Labels).err.type # "nil"

\* the fetch f of the recorded call a reached an image built from the wanted
\* source version
FetchFound(a, f) ==
    /\ f.outcome \in {"nil", "NotModified"}
    /\ SourceVersionFromLabels(a.reg[f.in].Labels).err.type = "nil"
    /\ SourceVersionEqual(SourceVersionFromLabels(a.reg[f.in].Labels).sv, a.sv)

\* a repository of the recorded call a whose tags could not be listed
RepoFailed(a) ==
    \E i \in DOMAIN dbQueryOnSL(a.pre, CanonicalName(a.sv)).rs :
        AllTags(a.reg, dbQueryOnSL(a.pre, CanonicalName(a.sv)).rs[i]).err.type # "nil"

\* every (repository, tag) pair of the repositories repos, in the order of
\* the repositories and of their tags
RECURSIVE PairsOf(_, _)
PairsOf(reg, repos) ==
    IF repos = <<>>
    THEN <<>>
    ELSE [i \in 1..Len(AllTags(reg, Head(repos)).ts) |->
             ImageRef(Head(repos), AllTags(reg, Head(repos)).ts[i])]
         \o PairsOf(reg, Tail(repos))

\* a harvest of the recorded call a in which a pair or a repository failed
HarvestHadFailure(a) ==
    /\ HarvestRan(a)
    /\ \/ RepoFailed(a)
       \/ \E j \in DOMAIN a.res.fetches : FetchFailed(a, a.res.fetches[j])

\* a harvest with a failure still fetched every pair of every repository of
\* the location, and GetImageName did not return the failure
C29_RemainingFetched ==
    \A k \in OpIndices :
        HarvestHadFailure(opLog[k]) =>
            /\ [j \in DOMAIN opLog[k].res.fetches |-> opLog[k].res.fetches[j].in]
                   = PairsOf(opLog[k].reg,
                             dbQueryOnSL(opLog[k].pre, CanonicalName(opLog[k].sv)).rs)
            /\ opLog[k].res.err.type \in {"nil", "NoImageNameFound"}

\* a harvest with a failure that reached an image of the wanted source
\* version through another tag made GetImageName succeed
C29_FoundThroughAnotherTag ==
    \A k \in OpIndices :
        /\ HarvestHadFailure(opLog[k])
        /\ \E j \in DOMAIN opLog[k].res.fetches :
               FetchFound(opLog[k], opLog[k].res.fetches[j])
        => opLog[k].res.err = NilErr

\* C29: during the harvest run by GetImageName, a failure for one
\* (repository, tag) pair or for one repository does not stop the remaining
\* tags and repositories from being fetched, and does not make GetImageName
\* fail when the wanted mapping was found through another tag
C29_Original ==
    /\ C29_RemainingFetched
    /\ C29_FoundThroughAnotherTag

\* the deployments d and o are of different software: their source locations
\* differ in the repo URL or in the offset
LocationsDiffer(d, o) ==
    CanonicalName(d.SourceVersion) # CanonicalName(o.SourceVersion)

\* C30: two deployments with an empty RequestID whose source locations
\* differ, in the repo URL or in the offset, never get the same computed
\* request id
C30_Original ==
    call.fn = "computeRequestID" /\ call.in.RequestID = <<>> =>
        \A o \in RequestIDInputs :
            o.RequestID = <<>> /\ LocationsDiffer(call.in, o) =>
                computeRequestID(o) # call.out

====
